---- MODULE Spec2Model ----
(***************************************************************************)
(* A model of the pylox tree-walking interpreter: the scanner              *)
(* (scanner/scanner.py), the parser (parser/parser.py), the evaluator      *)
(* (interpreter/interpreter.py), its environments                          *)
(* (interpreter/environment.py), callables (interpreter/callable.py), the  *)
(* resolver (resolver/resolver.py) and the driver (main.py).               *)
(*                                                                         *)
(* A program is an abstract syntax tree built from the node classes of     *)
(* parser/expr.py and parser/stmt.py.  The scanner, the parser, the        *)
(* evaluator and the resolver are recursive operators that thread an       *)
(* explicit record through their work, and one step of the state machine   *)
(* is one call of Pylox.run, Resolver.resolve, Scanner.scan_tokens,        *)
(* Parser.parse or of a method of Environment.                             *)
(***************************************************************************)
EXTENDS Integers, Sequences, FiniteSets, TLC

VARIABLES
    source,             \* the characters given to the scanner
    tokens,             \* the tokens given to the parser
    operands,           \* the two operand expressions of the operator programs
    envs,               \* the heap of Environment objects; envs[1] is Interpreter.globals
    environment,        \* Interpreter.environment, an index into envs
    locals,             \* Interpreter.locals, the resolver's side-table
    had_error,          \* Pylox.had_error
    had_runtime_error,  \* Pylox.had_runtime_error
    objects,            \* number of callable objects constructed so far
    last,               \* what the last operation did (its outcome, output and events)
    lines               \* number of operations performed so far

vars == <<source, tokens, operands, envs, environment, locals, had_error, had_runtime_error, objects, last, lines>>

\* Bounds of the model: the number of operations in a behaviour, and the
\* number of loop iterations and calls one run may perform before it is cut off.
MaxLines == 2
MaxSteps == 12
\* The number of Environment objects of the environment specification.
MaxEnvs == 3
\* The number of characters of a source of the scanner specification.
MaxSource == 4
\* The number of tokens before EOF in a token list of the parser specification.
MaxTokens == 5
\* The number of words of a source of the source specification.
MaxWords == 4
\* The number of lines read at the prompt in the prompt specification.
MaxPrompts == 4

-----------------------------------------------------------------------------
(* Runtime values: Python objects None, bool, float, str, LoxFunction and  *)
(* Clock.  A bool keeps its integer value in n, as Python's bool is an     *)
(* int; floats are modelled by integers.  A LoxFunction carries its        *)
(* declaration (an index into FunctionDecl), its closure (an index into    *)
(* envs) and its object identity.                                          *)

Value(t, n, s, c, o) == [t |-> t, n |-> n, s |-> s, c |-> c, o |-> o]

Nil == Value("nil", 0, "", 0, 0)
Bool(b) == Value("bool", IF b THEN 1 ELSE 0, "", 0, 0)
Number(n) == Value("num", n, "", 0, 0)
\* A float with a fractional part: n is the integral part and s the digits
\* of the fraction, without trailing zeros.
Float(n, fraction) == Value("num", n, fraction, 0, 0)
Str(s) == Value("str", 0, s, 0, 0)
LoxFunction(declaration, closure, o) == Value("fun", declaration, "", closure, o)
Clock == Value("clock", 0, "", 0, 0)

isinstance_float(v) == v.t = "num"
isinstance_str(v) == v.t = "str"
isinstance_LoxCallable(v) == v.t \in {"fun", "clock"}

\* bool(v) as Python computes it for the objects above: None, False, 0.0
\* and "" are false, every other object is true.
PyBool(v) ==
    CASE v.t = "nil" -> FALSE
      [] v.t = "bool" -> v.n = 1
      [] v.t = "num" -> v.n # 0 \/ v.s # ""
      [] v.t = "str" -> v.s # ""
      [] OTHER -> TRUE

\* left == right as Python computes it: None equals only None, bool and
\* float compare as numbers (True == 1.0), str by content, a callable
\* object only with itself.
PyEq(a, b) ==
    CASE a.t = "nil" -> b.t = "nil"
      [] a.t \in {"bool", "num"} -> b.t \in {"bool", "num"} /\ a.n = b.n /\ a.s = b.s
      [] a.t = "str" -> b.t = "str" /\ a.s = b.s
      [] a.t = "fun" -> b.t = "fun" /\ a.o = b.o
      [] OTHER -> b.t = "clock"

-----------------------------------------------------------------------------
(* Tokens.  Token is a record of type, lexeme, literal and line; literal   *)
(* is None (Nil), a float or a str.                                        *)

Token(type, lexeme, literal, line) ==
    [type |-> type, lexeme |-> lexeme, literal |-> literal, line |-> line]

\* error.token of a Return signal: Return.__init__ calls super().__init__(None, None).
NoToken == Token("None", "", Nil, 0)

Ident(lexeme, line) == Token("IDENTIFIER", lexeme, Nil, line)

-----------------------------------------------------------------------------
(* Expression and statement nodes (parser/expr.py, parser/stmt.py).  An    *)
(* absent child (None) is NoneNode.  A Variable or Assign node carries id, *)
(* the identity of the Python object; the program never reads it.          *)

NoneNode == [type |-> "None"]

Literal(value) == [type |-> "Literal", value |-> value]
Grouping(expression) == [type |-> "Grouping", expression |-> expression]
Unary(operator, right) == [type |-> "Unary", operator |-> operator, right |-> right]
Binary(left, operator, right) ==
    [type |-> "Binary", left |-> left, operator |-> operator, right |-> right]
Logical(left, operator, right) ==
    [type |-> "Logical", left |-> left, operator |-> operator, right |-> right]
Variable(id, name) == [type |-> "Variable", id |-> id, name |-> name]
Assign(id, name, value) == [type |-> "Assign", id |-> id, name |-> name, value |-> value]
Call(callee, paren, arguments) ==
    [type |-> "Call", callee |-> callee, paren |-> paren, arguments |-> arguments]

Expression(expression) == [type |-> "Expression", expression |-> expression]
PrintStmt(expression) == [type |-> "Print", expression |-> expression]
Var(name, initializer) == [type |-> "Var", name |-> name, initializer |-> initializer]
Block(statements) == [type |-> "Block", statements |-> statements]
If(condition, then_branch, else_branch) ==
    [type |-> "If", condition |-> condition, then_branch |-> then_branch,
     else_branch |-> else_branch]
While(condition, body) == [type |-> "While", condition |-> condition, body |-> body]
\* A Function node is referred to by its index in FunctionDecl.
Function(declaration) == [type |-> "Function", declaration |-> declaration]
Return(keyword, value) == [type |-> "Return", keyword |-> keyword, value |-> value]

-----------------------------------------------------------------------------
(* The record threaded through one run of the evaluator.  sig is "ok", or  *)
(* the exception in flight: "RuntimeError", "Return" (a subclass of        *)
(* RuntimeError, interpreter/error.py), "Host" (a Python exception that    *)
(* is no RuntimeError, named in msg), or "Cutoff" when the run exceeds     *)
(* MaxSteps.  out is what was printed; trace records the events the        *)
(* properties below talk about.                                            *)

Event(k, op, a, b, r, p, q, x) ==
    [k |-> k, op |-> op, a |-> a, b |-> b, r |-> r, p |-> p, q |-> q, x |-> x]

Note(s, e) == [s EXCEPT !.trace = Append(@, e)]

Ok(s, value) == [s EXCEPT !.sig = "ok", !.val = value]

\* raise RuntimeError(token, message)
RaiseRuntimeError(s, token, message) ==
    Note([s EXCEPT !.sig = "RuntimeError", !.tok = token, !.msg = message],
         Event("raise", "RuntimeError", Nil, Nil, Nil, s.environment, 0, 0))

\* A Python exception other than RuntimeError leaves the code.
RaiseHost(s, name) ==
    Note([s EXCEPT !.sig = "Host", !.tok = NoToken, !.msg = name],
         Event("raise", name, Nil, Nil, Nil, s.environment, 0, 0))

CutOff(s) == [s EXCEPT !.sig = "Cutoff", !.tok = NoToken, !.msg = "cut off"]

\* F applied to the value of v, with v evaluated once.
Bind(v, F(_)) == CHOOSE y \in {F(w) : w \in {v}} : TRUE

\* F applied to the outcome of v unless v left an exception in flight.
Then(v, F(_)) == Bind(v, LAMBDA r : IF r.sig # "ok" THEN r ELSE F(r))

-----------------------------------------------------------------------------
(* Environment (interpreter/environment.py).  An environment is            *)
(* [values, enclosing]; enclosing = 0 is None.                             *)

NoValues == [name \in {} |-> Nil]

Environment(enclosing) == [values |-> NoValues, enclosing |-> enclosing]

define(s, e, name, value) ==
    [s EXCEPT !.envs[e].values = (name :> value) @@ @]

RECURSIVE ancestor(_, _, _)
\* The environment `distance` hops up from e; 0 (None) when the chain is
\* shorter, where the code's next attribute access raises AttributeError.
ancestor(s, e, distance) ==
    IF distance = 0 \/ e = 0 THEN e
    ELSE ancestor(s, s.envs[e].enclosing, distance - 1)

get_at(s, distance, name) ==
    LET e == ancestor(s, s.environment, distance) IN
    IF e = 0 THEN RaiseHost(s, "AttributeError")
    ELSE IF name \notin DOMAIN s.envs[e].values THEN RaiseHost(s, "KeyError")
    ELSE Ok(s, s.envs[e].values[name])

assign_at(s, distance, name, value) ==
    LET e == ancestor(s, s.environment, distance) IN
    IF e = 0 THEN RaiseHost(s, "AttributeError")
    ELSE Ok(define(s, e, name.lexeme, value), value)

RECURSIVE get(_, _, _)
get(s, e, name) ==
    IF name.lexeme \in DOMAIN s.envs[e].values
    THEN Ok(s, s.envs[e].values[name.lexeme])
    ELSE IF s.envs[e].enclosing # 0 THEN get(s, s.envs[e].enclosing, name)
    ELSE RaiseRuntimeError(s, name, "Undefined Variable '" \o name.lexeme \o "'.")

\* An assignment that writes the frame it is called on.
assign_here(s, e, name, value) == Ok(define(s, e, name.lexeme, value), value)

RECURSIVE assign(_, _, _, _)
assign(s, e, name, value) ==
    IF name.lexeme \in DOMAIN s.envs[e].values
    THEN Ok(define(s, e, name.lexeme, value), value)
    ELSE IF s.envs[e].enclosing # 0 THEN assign(s, s.envs[e].enclosing, name, value)
    ELSE RaiseRuntimeError(s, name, "Undefined Variable '" \o name.lexeme \o "'.")

-----------------------------------------------------------------------------
(* Keys of the dict Interpreter.locals.  Variable defines __hash__ and     *)
(* __eq__ on its name token (parser/expr.py), and a Token is equal to      *)
(* another with the same fields, so a Variable node is found under any     *)
(* Variable of the same lexeme and line.  Variable.__eq__ is False for     *)
(* every object that is not a Variable, so a Token never finds an entry.   *)

VariableKey(expr) == [class |-> "Variable", name |-> expr.name]

TokenKey(name) == [class |-> "Token", name |-> name]

-----------------------------------------------------------------------------
(* The programs' function declarations: Function nodes (parser/stmt.py)    *)
(* with name, params and body.  FunctionDecl is defined with the corpus.   *)

RECURSIVE FunctionDecl(_)

\* LoxFunction.arity / Clock.arity
arity(callee) ==
    IF callee.t = "clock" THEN 0 ELSE Len(FunctionDecl(callee.n).params)

\* str(value) for a callable: LoxFunction.__str__ / Clock.__str__
callable_str(callee) ==
    IF callee.t = "clock" THEN "<native fn>"
    ELSE "<fn " \o FunctionDecl(callee.n).name.lexeme \o ">"

\* str(value) for a float: the digits and the fraction.  Python writes an
\* integral float with the fraction ".0".
str_float(value) ==
    [digits |-> ToString(value.n),
     fraction |-> IF value.s = "" THEN ".0" ELSE "." \o value.s]

\* text[:-2] when the text ends with ".0", else the text.
strip_point_zero(text) ==
    IF text.fraction = ".0" THEN text.digits ELSE text.digits \o text.fraction

\* Interpreter.stringify.  str(bool) is Python's "True" / "False".
stringify(value) ==
    CASE value.t = "nil" -> "nil"
      [] value.t = "num" -> strip_point_zero(str_float(value))
      [] value.t = "bool" -> IF value.n = 1 THEN "True" ELSE "False"
      [] value.t = "str" -> value.s
      [] OTHER -> callable_str(value)

-----------------------------------------------------------------------------
(* The evaluator (interpreter/interpreter.py).                             *)

RECURSIVE evaluate(_, _), execute(_, _), execute_statements(_, _, _),
          evaluate_arguments(_, _, _, _), while_loop(_, _)

visit_literal_expr(expr, s) == Ok(s, expr.value)

visit_grouping_expr(expr, s) == evaluate(expr.expression, s)

check_number_operand(s, operator, operand) ==
    IF isinstance_float(operand) THEN s
    ELSE RaiseRuntimeError(s, operator, "Operand must be a number.")

\* check_number_operands that takes a bool, an int in Python, for a number.
check_int_operands(s, operator, left, right) ==
    IF left.t \in {"num", "bool"} /\ right.t \in {"num", "bool"} THEN s
    ELSE RaiseRuntimeError(s, operator, "Operands must be numbers.")

check_number_operands(s, operator, left, right) ==
    IF isinstance_float(left) /\ isinstance_float(right) THEN s
    ELSE RaiseRuntimeError(s, operator, "Operands must be numbers.")

\* The condition of an if or while statement, or the operand of !, as the
\* code tests it: by Python's bool().
test(s, where, value) ==
    Note(s, Event("test", where, value, Nil, Bool(PyBool(value)), 0, 0, 0))

visit_unary_expr(expr, s) ==
    Then(evaluate(expr.right, s), LAMBDA r :
        IF expr.operator.type = "MINUS"
        THEN Then(check_number_operand(r, expr.operator, r.val),
                  LAMBDA c : IF r.val.s # "" THEN CutOff(c)
                             ELSE Ok(c, Number(0 - r.val.n)))
        ELSE IF expr.operator.type = "BANG"
        THEN Ok(test(r, "BANG", r.val), Bool(~PyBool(r.val)))
        ELSE Ok(r, Nil))

\* left / right on floats: ZeroDivisionError for a zero divisor.  The
\* model's numbers are integers, so a quotient that is not one is cut off.
divide(s, left, right) ==
    IF right.n = 0 THEN RaiseHost(s, "ZeroDivisionError")
    ELSE IF left.n % right.n # 0 THEN CutOff(s)
    ELSE Ok(s, Number(left.n \div right.n))

arithmetic(s, type, left, right) ==
    CASE left.s # "" \/ right.s # "" -> CutOff(s)
      [] type = "MINUS" -> Ok(s, Number(left.n - right.n))
      [] type = "SLASH" -> divide(s, left, right)
      [] type = "STAR" -> Ok(s, Number(left.n * right.n))
      [] type = "GREATER" -> Ok(s, Bool(left.n > right.n))
      [] type = "GREATER_EQUAL" -> Ok(s, Bool(left.n >= right.n))
      [] type = "LESS" -> Ok(s, Bool(left.n < right.n))
      [] OTHER -> Ok(s, Bool(left.n <= right.n))

plus(s, operator, left, right) ==
    IF isinstance_float(left) /\ isinstance_float(right)
    THEN IF left.s # "" \/ right.s # "" THEN CutOff(s)
         ELSE Ok(s, Number(left.n + right.n))
    ELSE IF isinstance_str(left) /\ isinstance_str(right)
    THEN Ok(s, Str(left.s \o right.s))
    ELSE RaiseRuntimeError(s, operator, "Operands must be two numbers or two strings.")

equality(s, type, left, right) ==
    LET result == IF type = "BANG_EQUAL" THEN Bool(~PyEq(left, right))
                  ELSE Bool(PyEq(left, right))
    IN  Ok(Note(s, Event("equality", type, left, right, result, 0, 0, 0)), result)

\* What a binary operator did with its operands: its result, or the message
\* of what it raised and whether the exception carries the operator token.
operated(r, operator, left, right) ==
    Note(r, Event("binary", operator.type, left, right,
                  IF r.sig = "ok" THEN r.val ELSE Str(r.msg),
                  IF r.sig = "ok" THEN 0 ELSE 1,
                  IF r.tok = operator THEN 1 ELSE 0, r.sig))

\* visit_binary_expr once both operands are evaluated.
binary(s, operator, left, right) ==
    IF operator.type = "PLUS"
    THEN operated(plus(s, operator, left, right), operator, left, right)
    ELSE IF operator.type \in {"MINUS", "SLASH", "STAR", "GREATER", "GREATER_EQUAL",
                               "LESS", "LESS_EQUAL"}
    THEN operated(Then(check_number_operands(s, operator, left, right),
                       LAMBDA c : arithmetic(c, operator.type, left, right)),
                  operator, left, right)
    ELSE IF operator.type \in {"BANG_EQUAL", "EQUAL_EQUAL"}
    THEN equality(s, operator.type, left, right)
    ELSE Ok(s, Nil)

visit_binary_expr(expr, s) ==
    Then(evaluate(expr.left, s), LAMBDA l :
    Then(evaluate(expr.right, l), LAMBDA r :
        binary(r, expr.operator, l.val, r.val)))

\* Whether visit_logical_expr returns left without evaluating right.
returns_left(type, left) == IF type = "OR" THEN PyBool(left) ELSE ~PyBool(left)

visit_logical_expr(expr, s) ==
    Then(evaluate(expr.left, s), LAMBDA l :
        IF returns_left(expr.operator.type, l.val)
        THEN Ok(Note(l, Event("logical", expr.operator.type, l.val, Nil, l.val, 0, 0, 0)),
                l.val)
        ELSE Then(evaluate(expr.right, l), LAMBDA r :
                Note(r, Event("logical", expr.operator.type, l.val, r.val, r.val, 1, 0, 0))))

look_up_variable(name, expr, s) ==
    IF VariableKey(expr) \in DOMAIN locals
    THEN get_at(s, locals[VariableKey(expr)], name.lexeme)
    ELSE get(s, 1, name)

visit_variable_expr(expr, s) == look_up_variable(expr.name, expr, s)

visit_assign_expr(expr, s) ==
    Then(evaluate(expr.value, s), LAMBDA v :
        IF TokenKey(expr.name) \in DOMAIN locals
        THEN assign_at(Note(v, Event("assign", "assign_at", v.val, Nil, Nil,
                                     v.environment, 0, expr.id)),
                       locals[TokenKey(expr.name)], expr.name, v.val)
        ELSE assign(Note(v, Event("assign", "globals", v.val, Nil, Nil,
                                  v.environment, 0, expr.id)),
                    1, expr.name, v.val))

\* Dynamic scoping: the body's environment encloses the caller's.
caller_environment(callee, s) == s.environment

\* Environment(self.closure) in LoxFunction.call: the enclosing link of the
\* environment the body runs in.
call_enclosing(callee, s) == callee.c

\* The restore written after the loop instead of in a finally clause.
restore_after_loop(r, previous) ==
    IF r.sig = "ok" THEN [r EXCEPT !.environment = previous] ELSE r

\* The finally clause of execute_block.
restore_environment(r, previous) == [r EXCEPT !.environment = previous]

execute_block(statements, env, s) ==
    Bind(execute_statements(statements, 1, [s EXCEPT !.environment = env]), LAMBDA r :
    Bind(restore_environment(r, s.environment), LAMBDA f :
        Note(f, Event("block", r.sig, Nil, Nil, Nil, s.environment, f.environment, env))))

bind_parameters(s, e, params, arguments) ==
    [s EXCEPT !.envs[e].values =
        [name \in {params[i].lexeme : i \in 1..Len(params)} |->
            arguments[CHOOSE i \in 1..Len(params) :
                /\ params[i].lexeme = name
                /\ \A j \in (i + 1)..Len(params) : params[j].lexeme # name]]]

\* The first lines of LoxFunction.call: the new environment, with the
\* parameters defined in it.
call_environment(callee, s, arguments) ==
    LET e == Len(s.envs) + 1
        made == [s EXCEPT !.envs = Append(@, Environment(call_enclosing(callee, s)))]
        bound == bind_parameters(made, e, FunctionDecl(callee.n).params, arguments)
    IN  Note(bound, Event("call", FunctionDecl(callee.n).name.lexeme, callee, Nil, Nil,
                          e, bound.envs[e].enclosing, s.environment))

\* LoxFunction.call
LoxFunction_call(callee, s, arguments) ==
    Bind(execute_block(FunctionDecl(callee.n).body, Len(s.envs) + 1,
                       call_environment(callee, s, arguments)),
         LAMBDA r :
            IF r.sig = "Return"
            THEN Ok(Note(r, Event("returned", FunctionDecl(callee.n).name.lexeme, callee,
                                  Nil, r.val, Len(s.envs) + 1, 0, 0)), r.val)
            ELSE IF r.sig = "ok" THEN Ok(r, Nil)
            ELSE r)

\* Clock.call: time_ns() / 1e6, the reading the run was given.
Clock_call(s) == Ok(s, Number(s.now))

evaluate_arguments(arguments, i, values, s) ==
    IF i > Len(arguments) \/ s.sig # "ok" THEN [state |-> s, values |-> values]
    ELSE Bind(evaluate(arguments[i], s), LAMBDA a :
            evaluate_arguments(arguments, i + 1, Append(values, a.val), a))

\* visit_call_expr once the callee and the arguments are evaluated.
call(expr, callee, arguments, s) ==
    IF ~isinstance_LoxCallable(callee)
    THEN RaiseRuntimeError(s, expr.paren, "Can only call functions and classes.")
    ELSE IF Len(arguments) # arity(callee)
    THEN RaiseRuntimeError(s, expr.paren,
             "Expected " \o ToString(arity(callee)) \o " arguments but got "
             \o ToString(Len(arguments)) \o ".")
    ELSE IF s.steps = 0 THEN CutOff(s)
    ELSE IF callee.t = "clock" THEN Clock_call(s)
    ELSE LoxFunction_call(callee, [s EXCEPT !.steps = @ - 1], arguments)

\* The callable check made before the arguments are evaluated.
visit_call_expr_checking_first(expr, s) ==
    Then(evaluate(expr.callee, s), LAMBDA c :
        IF ~isinstance_LoxCallable(c.val)
        THEN RaiseRuntimeError(c, expr.paren, "Can only call functions and classes.")
        ELSE Bind(evaluate_arguments(expr.arguments, 1, <<>>, c), LAMBDA a :
                IF a.state.sig # "ok" THEN a.state
                ELSE call(expr, c.val, a.values, a.state)))

visit_call_expr(expr, s) ==
    Then(evaluate(expr.callee, s), LAMBDA c :
    Bind(evaluate_arguments(expr.arguments, 1, <<>>, c), LAMBDA a :
        IF a.state.sig # "ok" THEN a.state
        ELSE call(expr, c.val, a.values, a.state)))

evaluate(expr, s) ==
    CASE expr.type = "Literal" -> visit_literal_expr(expr, s)
      [] expr.type = "Grouping" -> visit_grouping_expr(expr, s)
      [] expr.type = "Unary" -> visit_unary_expr(expr, s)
      [] expr.type = "Binary" -> visit_binary_expr(expr, s)
      [] expr.type = "Logical" -> visit_logical_expr(expr, s)
      [] expr.type = "Variable" -> visit_variable_expr(expr, s)
      [] expr.type = "Assign" -> visit_assign_expr(expr, s)
      [] expr.type = "Call" -> visit_call_expr(expr, s)

visit_block_stmt(stmt, s) ==
    execute_block(stmt.statements, Len(s.envs) + 1,
                  [s EXCEPT !.envs = Append(@, Environment(s.environment))])

visit_expression_stmt(stmt, s) == evaluate(stmt.expression, s)

\* LoxFunction(stmt, self.environment)
new_function(stmt, s) == LoxFunction(stmt.declaration, s.environment, s.objects + 1)

visit_function_stmt(stmt, s) ==
    LET function == new_function(stmt, s)
        name == FunctionDecl(stmt.declaration).name.lexeme
        made == Note([s EXCEPT !.objects = @ + 1],
                     Event("function", name, function, Nil, Nil, s.environment, 0, 0))
    IN  define(made, s.environment, name, function)

visit_print_stmt(stmt, s) ==
    Then(evaluate(stmt.expression, s), LAMBDA v :
        [v EXCEPT !.out = Append(@, stringify(v.val))])

visit_return_stmt(stmt, s) ==
    Then(IF stmt.value.type # "None" THEN evaluate(stmt.value, s) ELSE Ok(s, Nil),
         LAMBDA v :
            Note([v EXCEPT !.sig = "Return", !.tok = NoToken, !.msg = "None"],
                 Event("raise", "Return", v.val, Nil, Nil, v.environment, 0, 0)))

visit_var_stmt(stmt, s) ==
    Then(IF stmt.initializer.type # "None" THEN evaluate(stmt.initializer, s)
         ELSE Ok(s, Nil),
         LAMBDA v :
            define(Note(v, Event("define", stmt.name.lexeme, v.val, Nil, Nil,
                                 v.environment, 0, 0)),
                   v.environment, stmt.name.lexeme, v.val))

\* One test of the condition of visit_while_stmt, and what follows it.
while_loop(stmt, s) ==
    Then(evaluate(stmt.condition, s), LAMBDA c :
        IF ~PyBool(c.val) THEN test(c, "While", c.val)
        ELSE IF c.steps = 0 THEN CutOff(c)
        ELSE Then(execute(stmt.body, [test(c, "While", c.val) EXCEPT !.steps = @ - 1]),
                  LAMBDA b : while_loop(stmt, b)))

visit_while_stmt(stmt, s) == while_loop(stmt, s)

visit_if_stmt(stmt, s) ==
    Then(evaluate(stmt.condition, s), LAMBDA c :
        IF PyBool(c.val)
        THEN execute(stmt.then_branch,
                     Note(test(c, "If", c.val), Event("branch", "then", c.val, Nil, Nil, 0, 0, 0)))
        ELSE IF stmt.else_branch.type # "None"
        THEN execute(stmt.else_branch,
                     Note(test(c, "If", c.val), Event("branch", "else", c.val, Nil, Nil, 0, 0, 0)))
        ELSE test(c, "If", c.val))

execute(stmt, s) ==
    CASE stmt.type = "Expression" -> visit_expression_stmt(stmt, s)
      [] stmt.type = "Print" -> visit_print_stmt(stmt, s)
      [] stmt.type = "Var" -> visit_var_stmt(stmt, s)
      [] stmt.type = "Block" -> visit_block_stmt(stmt, s)
      [] stmt.type = "If" -> visit_if_stmt(stmt, s)
      [] stmt.type = "While" -> visit_while_stmt(stmt, s)
      [] stmt.type = "Function" -> visit_function_stmt(stmt, s)
      [] stmt.type = "Return" -> visit_return_stmt(stmt, s)

\* for statement in statements: self.execute(statement)
execute_statements(statements, i, s) ==
    IF i > Len(statements) \/ s.sig # "ok" THEN s
    ELSE execute_statements(statements, i + 1, execute(statements[i], s))

\* Pylox.runtime_error: print the message and the token's line, then set the
\* flag.  A Return signal carries no token (None), and reading its line
\* raises AttributeError before anything is printed or set.
runtime_error(s) ==
    LET called == Note(s, Event("report", s.sig, Nil, Nil, Nil, 0, 0, 0))
    IN  IF s.tok = NoToken THEN RaiseHost(called, "AttributeError")
        ELSE [called EXCEPT !.sig = "ok",
                            !.out = @ \o <<s.msg, "[line " \o ToString(s.tok.line) \o "]">>,
                            !.had_runtime_error = TRUE]

RECURSIVE interpret_statements(_, _, _)
\* The for loop of interpret; each statement it starts is noted.
interpret_statements(statements, i, s) ==
    IF i > Len(statements) \/ s.sig # "ok" THEN s
    ELSE interpret_statements(statements, i + 1,
             execute(statements[i],
                     Note(s, Event("statement", "", Nil, Nil, Nil, 0, 0, i))))

\* interpret without its try/except: the exception leaves interpret.
interpret_uncaught(statements, s) == interpret_statements(statements, 1, s)

\* Interpreter.interpret: except RuntimeError catches RuntimeError and its
\* subclass Return; any other exception leaves interpret.
interpret(statements, s) ==
    Bind(interpret_statements(statements, 1, s), LAMBDA r :
        IF r.sig \in {"RuntimeError", "Return"} THEN runtime_error(r) ELSE r)

-----------------------------------------------------------------------------
(* The resolver (resolver/resolver.py).  The record threaded through the   *)
(* walk holds Resolver.scopes (a sequence of dicts from name to bool),     *)
(* Resolver.current_function and the interpreter's side-table.             *)

RECURSIVE resolve(_, _, _), resolve_stmt(_, _), resolve_expr(_, _),
          resolve_exprs(_, _, _), resolve_local_from(_, _, _, _),
          declare_params(_, _, _)

NoScope == [name \in {} |-> FALSE]

begin_scope(z) == [z EXCEPT !.scopes = Append(@, NoScope)]

end_scope(z) == [z EXCEPT !.scopes = SubSeq(@, 1, Len(@) - 1)]

\* self.interpreter.error(...) and self.interpreter.pylox.resolver_error(...):
\* neither Interpreter.error nor Pylox.resolver_error is defined, so the
\* attribute lookup raises AttributeError.
resolver_report(z, name, message) ==
    [z EXCEPT !.sig = "Host", !.msg = "AttributeError",
              !.trace = Append(@, Event("resolver_error", message, Nil, Nil, Nil,
                                        name.line, 0, 0))]

declare(z, name) ==
    IF Len(z.scopes) = 0 THEN z
    ELSE IF name.lexeme \in DOMAIN z.scopes[Len(z.scopes)]
    THEN resolver_report(z, name, "Variable with this name already declared in this scope.")
    ELSE [z EXCEPT !.scopes[Len(z.scopes)] = (name.lexeme :> FALSE) @@ @]

Resolver_define(z, name) ==
    IF Len(z.scopes) = 0 THEN z
    ELSE [z EXCEPT !.scopes[Len(z.scopes)] = (name.lexeme :> TRUE) @@ @]

\* Interpreter.resolve: self.locals[expr] = depth.  A Variable hashes by its
\* name token; Assign is a dataclass with eq and without a __hash__, so it
\* is unhashable and the store raises TypeError.
Interpreter_resolve(z, expr, depth) ==
    IF expr.type = "Variable"
    THEN [z EXCEPT !.locals = (VariableKey(expr) :> depth) @@ @,
                   !.trace = Append(@, Event("resolve", expr.name.lexeme, Nil, Nil, Nil,
                                             depth, expr.name.line, expr.id))]
    ELSE [z EXCEPT !.sig = "Host", !.msg = "TypeError"]

resolve_local_from(z, i, expr, name) ==
    IF i < 1 THEN z
    ELSE IF name.lexeme \in DOMAIN z.scopes[i]
    THEN Interpreter_resolve(z, expr, Len(z.scopes) - i)
    ELSE resolve_local_from(z, i - 1, expr, name)

resolve_local(z, expr, name) == resolve_local_from(z, Len(z.scopes), expr, name)

declare_params(z, params, i) ==
    IF i > Len(params) \/ z.sig # "ok" THEN z
    ELSE Then(declare(z, params[i]), LAMBDA d :
            declare_params(Resolver_define(d, params[i]), params, i + 1))

resolve_function(z, function, type) ==
    Then(declare_params(begin_scope([z EXCEPT !.current_function = type]),
                        function.params, 1), LAMBDA p :
    Then(resolve(p, function.body, 1), LAMBDA b :
        [end_scope(b) EXCEPT !.current_function = z.current_function]))

Resolver_visit_block_stmt(z, stmt) ==
    Then(resolve(begin_scope(z), stmt.statements, 1), LAMBDA b : end_scope(b))

Resolver_visit_function_stmt(z, stmt) ==
    Then(declare(z, FunctionDecl(stmt.declaration).name), LAMBDA d :
        resolve_function(Resolver_define(d, FunctionDecl(stmt.declaration).name),
                         FunctionDecl(stmt.declaration), "FUNCTION"))

Resolver_visit_if_stmt(z, stmt) ==
    Then(resolve_expr(z, stmt.condition), LAMBDA c :
    Then(resolve_stmt(c, stmt.then_branch), LAMBDA t :
        IF stmt.else_branch.type # "None" THEN resolve_stmt(t, stmt.else_branch)
        ELSE t))

Resolver_visit_return_stmt(z, stmt) ==
    IF z.current_function = "NONE"
    THEN resolver_report(z, stmt.keyword, "Cannot return from top-level code.")
    ELSE IF stmt.value.type # "None" THEN resolve_expr(z, stmt.value)
    ELSE z

Resolver_visit_var_stmt(z, stmt) ==
    Then(declare(z, stmt.name), LAMBDA d :
    Then(IF stmt.initializer.type # "None" THEN resolve_expr(d, stmt.initializer) ELSE d,
         LAMBDA i : Resolver_define(i, stmt.name)))

Resolver_visit_while_stmt(z, stmt) ==
    Then(resolve_expr(z, stmt.condition), LAMBDA c : resolve_stmt(c, stmt.body))

Resolver_visit_assign_expr(z, expr) ==
    Then(resolve_expr(z, expr.value), LAMBDA v : resolve_local(v, expr, expr.name))

Resolver_visit_binary_expr(z, expr) ==
    Then(resolve_expr(z, expr.left), LAMBDA l : resolve_expr(l, expr.right))

Resolver_visit_call_expr(z, expr) ==
    Then(resolve_expr(z, expr.callee), LAMBDA c : resolve_exprs(c, expr.arguments, 1))

\* The Variable the resolver visits and the scopes it is visited in.
referenced(z, expr) ==
    Note(z, Event("reference", expr.name.lexeme, [type |-> "scopes", scopes |-> z.scopes],
                  Nil, Nil, 0, expr.name.line, expr.id))

Resolver_visit_variable_expr(z, expr) ==
    IF /\ Len(z.scopes) > 0
       /\ expr.name.lexeme \in DOMAIN z.scopes[Len(z.scopes)]
       /\ z.scopes[Len(z.scopes)][expr.name.lexeme] = FALSE
    THEN resolver_report(referenced(z, expr), expr.name,
                         "Cannot read local variable in its own initializer.")
    ELSE resolve_local(referenced(z, expr), expr, expr.name)

resolve_expr(z, expr) ==
    CASE expr.type = "Literal" -> z
      [] expr.type = "Grouping" -> resolve_expr(z, expr.expression)
      [] expr.type = "Unary" -> resolve_expr(z, expr.right)
      [] expr.type = "Binary" -> Resolver_visit_binary_expr(z, expr)
      [] expr.type = "Logical" -> Resolver_visit_binary_expr(z, expr)
      [] expr.type = "Variable" -> Resolver_visit_variable_expr(z, expr)
      [] expr.type = "Assign" -> Resolver_visit_assign_expr(z, expr)
      [] expr.type = "Call" -> Resolver_visit_call_expr(z, expr)

resolve_exprs(z, exprs, i) ==
    IF i > Len(exprs) \/ z.sig # "ok" THEN z
    ELSE resolve_exprs(resolve_expr(z, exprs[i]), exprs, i + 1)

resolve_stmt(z, stmt) ==
    CASE stmt.type = "Expression" -> resolve_expr(z, stmt.expression)
      [] stmt.type = "Print" -> resolve_expr(z, stmt.expression)
      [] stmt.type = "Var" -> Resolver_visit_var_stmt(z, stmt)
      [] stmt.type = "Block" -> Resolver_visit_block_stmt(z, stmt)
      [] stmt.type = "If" -> Resolver_visit_if_stmt(z, stmt)
      [] stmt.type = "While" -> Resolver_visit_while_stmt(z, stmt)
      [] stmt.type = "Function" -> Resolver_visit_function_stmt(z, stmt)
      [] stmt.type = "Return" -> Resolver_visit_return_stmt(z, stmt)

\* Resolver.resolve: for statement in statements: self.resolve_stmt(statement)
resolve(z, statements, i) ==
    IF i > Len(statements) \/ z.sig # "ok" THEN z
    ELSE resolve(resolve_stmt(z, statements[i]), statements, i + 1)

-----------------------------------------------------------------------------
(* The scanner (scanner/scanner.py).  A source is a sequence of one-       *)
(* character strings; start and current count characters from 0 as in the  *)
(* code, so source[current] of the code is z.source[z.current + 1].  The   *)
(* record holds the Scanner's fields, what was printed, and Pylox's        *)
(* had_error as the scanner's reports set it.                              *)

\* None, as peek and peek_next return it at the end of the source.
NoChar == ""

Digits == {"0", "1", "2", "3", "4", "5", "6", "7", "8", "9"}

Letters ==
    {"a", "b", "c", "d", "e", "f", "g", "h", "i", "j", "k", "l", "m", "n", "o", "p",
     "q", "r", "s", "t", "u", "v", "w", "x", "y", "z",
     "A", "B", "C", "D", "E", "F", "G", "H", "I", "J", "K", "L", "M", "N", "O", "P",
     "Q", "R", "S", "T", "U", "V", "W", "X", "Y", "Z"}

\* str.isdigit, str.isalpha and str.isalnum on one ASCII character.
isdigit(c) == c \in Digits
isalpha(c) == c \in Letters
isalnum(c) == c \in Digits \cup Letters

KEYWORD_MAP ==
    [text \in {"and", "class", "else", "false", "for", "fun", "if", "nil", "or", "print",
               "return", "super", "this", "true", "var", "while"} |->
        CASE text = "and" -> "AND" [] text = "class" -> "CLASS" [] text = "else" -> "ELSE"
          [] text = "false" -> "FALSE" [] text = "for" -> "FOR" [] text = "fun" -> "FUN"
          [] text = "if" -> "IF" [] text = "nil" -> "NIL" [] text = "or" -> "OR"
          [] text = "print" -> "PRINT" [] text = "return" -> "RETURN"
          [] text = "super" -> "SUPER" [] text = "this" -> "THIS" [] text = "true" -> "TRUE"
          [] text = "var" -> "VAR" [] OTHER -> "WHILE"]

RECURSIVE join(_)
\* The str made of a sequence of characters.
join(chars) == IF chars = <<>> THEN "" ELSE Head(chars) \o join(Tail(chars))

\* self.source[from:to], as characters.
slice(z, from, to) == SubSeq(z.source, from + 1, to)

DigitValue(c) ==
    CASE c = "0" -> 0 [] c = "1" -> 1 [] c = "2" -> 2 [] c = "3" -> 3 [] c = "4" -> 4
      [] c = "5" -> 5 [] c = "6" -> 6 [] c = "7" -> 7 [] c = "8" -> 8 [] OTHER -> 9

RECURSIVE int(_), strip_zeros(_)
int(chars) ==
    IF chars = <<>> THEN 0
    ELSE 10 * int(SubSeq(chars, 1, Len(chars) - 1)) + DigitValue(chars[Len(chars)])

strip_zeros(chars) ==
    IF chars # <<>> /\ chars[Len(chars)] = "0"
    THEN strip_zeros(SubSeq(chars, 1, Len(chars) - 1))
    ELSE chars

\* float(text) for digits with an optional "." and digits.
float(chars) ==
    LET point == {i \in DOMAIN chars : chars[i] = "."} IN
    IF point = {} THEN Number(int(chars))
    ELSE LET i == CHOOSE i \in point : TRUE
         IN  Float(int(SubSeq(chars, 1, i - 1)),
                   join(strip_zeros(SubSeq(chars, i + 1, Len(chars)))))

\* Scanner.__init__
Scanner(chars) ==
    [source |-> chars, tokens |-> <<>>, start |-> 0, current |-> 0, line |-> 1,
     had_error |-> FALSE, out |-> <<>>, sig |-> "ok", msg |-> ""]

Scanner_is_at_end(z) == z.current >= Len(z.source)

\* advance moves the cursor; the character it returns is Scanner_advanced.
Scanner_advance(z) == [z EXCEPT !.current = @ + 1]

Scanner_advanced(z) == z.source[z.current + 1]

Scanner_peek(z) == IF Scanner_is_at_end(z) THEN NoChar ELSE z.source[z.current + 1]

Scanner_peek_next(z) ==
    IF z.current + 1 >= Len(z.source) THEN NoChar ELSE z.source[z.current + 2]

\* match(expected) is true exactly when Scanner_matches; it then advances.
Scanner_matches(z, expected) ==
    ~Scanner_is_at_end(z) /\ z.source[z.current + 1] = expected

add_token(z, type, literal) ==
    [z EXCEPT !.tokens = Append(@, Token(type, join(slice(z, z.start, z.current)),
                                         literal, z.line))]

\* One- or two-character operators: add_token(two if self.match("=") else one)
add_operator(z, one, two) ==
    IF Scanner_matches(z, "=") THEN add_token(Scanner_advance(z), two, Nil)
    ELSE add_token(z, one, Nil)

\* Pylox.report(line, where, message): print and set had_error.
report(z, line, where, message) ==
    [z EXCEPT !.out = Append(@, "[line " \o ToString(line) \o "] Error" \o where
                                \o ": " \o message),
              !.had_error = TRUE]

\* Pylox.scanner_error
scanner_error(z, line, message) == report(z, line, "", message)

RECURSIVE comment(_), string_body(_), digits(_), alphanumerics(_), scan_tokens(_)

\* while self.peek() and self.peek() != "\n": self.advance()
comment(z) ==
    IF Scanner_peek(z) # NoChar /\ Scanner_peek(z) # "\n" THEN comment(Scanner_advance(z))
    ELSE z

\* The while loop of Scanner.string.
string_body(z) ==
    IF Scanner_peek(z) # NoChar /\ Scanner_peek(z) # "\""
    THEN string_body(Scanner_advance(
             IF Scanner_peek(z) = "\n" THEN [z EXCEPT !.line = @ + 1] ELSE z))
    ELSE z

\* The rest of Scanner.string after its loop.  An unterminated string is
\* printed; no reporter method is called.
string_end(z) ==
    IF Scanner_is_at_end(z)
    THEN [z EXCEPT !.out = Append(@, "[Line: " \o ToString(z.line)
                                     \o "] Error: Unterminated string.")]
    ELSE add_token(Scanner_advance(z), "STRING",
                   Str(join(slice(z, z.start + 1, z.current))))

string(z) == Bind(string_body(z), LAMBDA b : string_end(b))

\* while self.peek() and self.peek().isdigit(): self.advance()
digits(z) == IF isdigit(Scanner_peek(z)) THEN digits(Scanner_advance(z)) ELSE z

\* The rest of Scanner.number after its first loop.  peek_next() is None
\* when "." is the last character, and None has no isdigit.
fraction(z) ==
    IF Scanner_peek(z) # "." THEN z
    ELSE IF Scanner_peek_next(z) = NoChar
    THEN [z EXCEPT !.sig = "Host", !.msg = "AttributeError"]
    ELSE IF isdigit(Scanner_peek_next(z)) THEN digits(Scanner_advance(z))
    ELSE z

number(z) ==
    Then(Bind(digits(z), LAMBDA d : fraction(d)), LAMBDA f :
        add_token(f, "NUMBER", float(slice(f, f.start, f.current))))

\* while self.peek() and self.peek().isalnum(): self.advance()
alphanumerics(z) ==
    IF isalnum(Scanner_peek(z)) THEN alphanumerics(Scanner_advance(z)) ELSE z

named(z, text) ==
    add_token(z, IF text \in DOMAIN KEYWORD_MAP THEN KEYWORD_MAP[text] ELSE "IDENTIFIER", Nil)

identifier(z) ==
    Bind(alphanumerics(z), LAMBDA a : named(a, join(slice(a, a.start, a.current))))

\* scan_token after c = self.advance().
scan_character(z, c) ==
    CASE c = "(" -> add_token(z, "LEFT_PAREN", Nil)
      [] c = ")" -> add_token(z, "RIGHT_PAREN", Nil)
      [] c = "{" -> add_token(z, "LEFT_BRACE", Nil)
      [] c = "}" -> add_token(z, "RIGHT_BRACE", Nil)
      [] c = "," -> add_token(z, "COMMA", Nil)
      [] c = "." -> add_token(z, "DOT", Nil)
      [] c = "-" -> add_token(z, "MINUS", Nil)
      [] c = "+" -> add_token(z, "PLUS", Nil)
      [] c = ";" -> add_token(z, "SEMICOLON", Nil)
      [] c = "*" -> add_token(z, "STAR", Nil)
      [] c = "!" -> add_operator(z, "BANG", "BANG_EQUAL")
      [] c = "=" -> add_operator(z, "EQUAL", "EQUAL_EQUAL")
      [] c = "<" -> add_operator(z, "LESS", "LESS_EQUAL")
      [] c = ">" -> add_operator(z, "GREATER", "GREATER_EQUAL")
      [] c = "/" -> IF Scanner_matches(z, "/") THEN comment(Scanner_advance(z))
                    ELSE add_token(z, "SLASH", Nil)
      [] c \in {" ", "\r", "\t"} -> z
      [] c = "\n" -> [z EXCEPT !.line = @ + 1]
      [] c = "\"" -> string(z)
      [] isdigit(c) -> number(z)
      [] isalpha(c) -> identifier(z)
      [] OTHER -> scanner_error(z, z.line, "Unexpected character " \o c)

scan_token(z) == scan_character(Scanner_advance(z), Scanner_advanced(z))

\* Scanner.scan_tokens
scan_tokens(z) ==
    IF z.sig # "ok" THEN z
    ELSE IF Scanner_is_at_end(z)
    THEN [z EXCEPT !.tokens = Append(@, Token("EOF", "", Nil, z.line))]
    ELSE scan_tokens(scan_token([z EXCEPT !.start = z.current]))

-----------------------------------------------------------------------------
(* The parser (parser/parser.py).  The record holds Parser.tokens and      *)
(* Parser.current (counted from 0 as in the code), what Pylox.report       *)
(* printed and set, the exception in flight ("ParseError"), and node: the  *)
(* value the method returned (an expression, a statement, a token or a     *)
(* list of statements).  The id of a Variable or an Assign is the position *)
(* of the token that made it.                                              *)

ParseEvent(k, at, to, message, lhs, value, node, sig, depth) ==
    [k |-> k, at |-> at, to |-> to, message |-> message, lhs |-> lhs, value |-> value,
     node |-> node, sig |-> sig, depth |-> depth]

\* Parser.__init__
Parser(toks) ==
    [tokens |-> toks, current |-> 0, had_error |-> FALSE, out |-> <<>>, sig |-> "ok",
     msg |-> "", node |-> NoneNode, trace |-> <<>>]

Parser_peek(p) == p.tokens[p.current + 1]

\* self.tokens[self.current - 1]; index -1 is the last element.
Parser_previous(p) ==
    IF p.current = 0 THEN p.tokens[Len(p.tokens)] ELSE p.tokens[p.current]

Parser_is_at_end(p) == Parser_peek(p).type = "EOF"

Parser_check(p, type) == ~Parser_is_at_end(p) /\ Parser_peek(p).type = type

Parser_advance(p) == IF Parser_is_at_end(p) THEN p ELSE [p EXCEPT !.current = @ + 1]

\* match(*types) is true exactly when Parser_matches; it then advances.
Parser_matches(p, types) == \E t \in types : Parser_check(p, t)

\* Pylox.parser_error
parser_error(p, token, message) ==
    IF token.type = "EOF" THEN report(p, token.line, " at end", message)
    ELSE report(p, token.line, " at '" \o token.lexeme \o "'", message)

\* Parser.error reports and returns a ParseError; the caller may raise it.
Parser_error(p, at, message) ==
    Note(parser_error(p, p.tokens[at + 1], message),
         ParseEvent("error", at, at, message, NoneNode, NoneNode, NoneNode, "ok", 0))

\* raise self.error(self.peek(), message)
raise_error(p, message) ==
    [Parser_error(p, p.current, message) EXCEPT !.sig = "ParseError", !.msg = message]

\* Parser.consume; node is the token returned.
Parser_consume(p, type, message) ==
    IF Parser_check(p, type)
    THEN [Parser_advance(p) EXCEPT !.node = Parser_peek(p)]
    ELSE raise_error(p, message)

\* return <node> after a successful match
matched(p, node) == [Parser_advance(p) EXCEPT !.node = node]

RECURSIVE Parser_assignment(_), Parser_equality_rest(_), Parser_comparison_rest(_),
          Parser_term_rest(_), Parser_factor_rest(_), Parser_unary(_),
          Parser_declaration(_, _), Parser_block(_, _, _)

Parser_expression(p) == Parser_assignment(p)

Parser_primary(p) ==
    IF Parser_matches(p, {"FALSE"}) THEN matched(p, Literal(Bool(FALSE)))
    ELSE IF Parser_matches(p, {"TRUE"}) THEN matched(p, Literal(Bool(TRUE)))
    ELSE IF Parser_matches(p, {"NIL"}) THEN matched(p, Literal(Nil))
    ELSE IF Parser_matches(p, {"NUMBER", "STRING"})
    THEN matched(p, Literal(Parser_peek(p).literal))
    ELSE IF Parser_matches(p, {"IDENTIFIER"})
    THEN matched(p, Variable(p.current + 1, Parser_peek(p)))
    ELSE IF Parser_matches(p, {"LEFT_PAREN"})
    THEN Then(Parser_expression(Parser_advance(p)), LAMBDA e :
         Then(Parser_consume(e, "RIGHT_PAREN", "Expect ')' after expression."), LAMBDA r :
              [r EXCEPT !.node = Grouping(e.node)]))
    ELSE raise_error(p, "Expect expression.")

Parser_unary(p) ==
    IF Parser_matches(p, {"BANG", "MINUS"})
    THEN Then(Parser_unary(Parser_advance(p)), LAMBDA r :
              [r EXCEPT !.node = Unary(Parser_peek(p), r.node)])
    ELSE Parser_primary(p)

\* The while loop of factor; p.node is expr.
Parser_factor_rest(p) ==
    IF Parser_matches(p, {"SLASH", "STAR"})
    THEN Then(Parser_unary(Parser_advance(p)), LAMBDA r :
              Parser_factor_rest([r EXCEPT !.node = Binary(p.node, Parser_peek(p), r.node)]))
    ELSE p

Parser_factor(p) == Then(Parser_unary(p), LAMBDA r : Parser_factor_rest(r))

\* The while loop of term.
Parser_term_rest(p) ==
    IF Parser_matches(p, {"MINUS", "PLUS"})
    THEN Then(Parser_factor(Parser_advance(p)), LAMBDA r :
              Parser_term_rest([r EXCEPT !.node = Binary(p.node, Parser_peek(p), r.node)]))
    ELSE p

Parser_term(p) == Then(Parser_factor(p), LAMBDA r : Parser_term_rest(r))

\* The while loop of comparison.
Parser_comparison_rest(p) ==
    IF Parser_matches(p, {"GREATER", "GREATER_EQUAL", "LESS", "LESS_EQUAL"})
    THEN Then(Parser_term(Parser_advance(p)), LAMBDA r :
              Parser_comparison_rest(
                  [r EXCEPT !.node = Binary(p.node, Parser_peek(p), r.node)]))
    ELSE p

Parser_comparison(p) == Then(Parser_term(p), LAMBDA r : Parser_comparison_rest(r))

\* The while loop of equality.
Parser_equality_rest(p) ==
    IF Parser_matches(p, {"BANG_EQUAL", "EQUAL_EQUAL"})
    THEN Then(Parser_comparison(Parser_advance(p)), LAMBDA r :
              Parser_equality_rest(
                  [r EXCEPT !.node = Binary(p.node, Parser_peek(p), r.node)]))
    ELSE p

Parser_equality(p) == Then(Parser_comparison(p), LAMBDA r : Parser_equality_rest(r))

\* What an assignment did: its left-hand side, the position of `=`, the
\* value parsed and what it returned or raised.
assigned(r, expr, equals, value) ==
    Note(r, ParseEvent("assignment", equals, r.current, "", expr, value, r.node, r.sig, 0))

\* An assignment that raises the error it reports.
assign_target_raising(p, expr, equals) ==
    IF expr.type = "Variable"
    THEN assigned([p EXCEPT !.node = Assign(equals + 1, expr.name, p.node)],
                  expr, equals, p.node)
    ELSE assigned([Parser_error(p, equals, "Invalid assignment target.")
                       EXCEPT !.node = expr, !.sig = "ParseError"],
                  expr, equals, p.node)

\* The body of `if self.match(TokenType.EQUAL)` once value is parsed (p.node)
\* and the return that follows it; equals is the position of the `=` token.
assign_target(p, expr, equals) ==
    IF expr.type = "Variable"
    THEN assigned([p EXCEPT !.node = Assign(equals + 1, expr.name, p.node)],
                  expr, equals, p.node)
    ELSE assigned([Parser_error(p, equals, "Invalid assignment target.")
                       EXCEPT !.node = expr],
                  expr, equals, p.node)

Parser_assignment(p) ==
    Then(Parser_equality(p), LAMBDA l :
        IF Parser_matches(l, {"EQUAL"})
        THEN Then(Parser_assignment(Parser_advance(l)), LAMBDA v :
                  assign_target(v, l.node, l.current))
        ELSE l)

print_statement(p) ==
    Then(Parser_expression(p), LAMBDA e :
    Then(Parser_consume(e, "SEMICOLON", "Expect ';' after value."), LAMBDA r :
         [r EXCEPT !.node = PrintStmt(e.node)]))

\* The rest of var_declaration once name is consumed.
var_initializer(p, name) ==
    Then(IF Parser_matches(p, {"EQUAL"}) THEN Parser_expression(Parser_advance(p))
         ELSE [p EXCEPT !.node = NoneNode], LAMBDA i :
    Then(Parser_consume(i, "SEMICOLON", "Expect ';' after variable declaration."), LAMBDA r :
         [r EXCEPT !.node = Var(name, i.node)]))

var_declaration(p) ==
    Then(Parser_consume(p, "IDENTIFIER", "Expect variable name."), LAMBDA n :
         var_initializer(n, n.node))

expression_statement(p) ==
    Then(Parser_expression(p), LAMBDA e :
    Then(Parser_consume(e, "SEMICOLON", "Expect ';' after expression."), LAMBDA r :
         [r EXCEPT !.node = Expression(e.node)]))

Parser_statement(p, depth) ==
    IF Parser_matches(p, {"PRINT"}) THEN print_statement(Parser_advance(p))
    ELSE IF Parser_matches(p, {"LEFT_BRACE"})
    THEN Then(Parser_block(Parser_advance(p), <<>>, depth + 1), LAMBDA r :
              [r EXCEPT !.node = Block(r.node)])
    ELSE expression_statement(p)

\* A loop of the parser has collected as many statements as there are
\* tokens: it has made an iteration that consumed no token, and would make
\* it again for ever.  The loop is cut off there.
stalled(p, statements) == Len(statements) >= Len(p.tokens)

\* Parser.block with the statements it has collected so far.
Parser_block(p, statements, depth) ==
    IF stalled(p, statements) THEN [p EXCEPT !.sig = "Cutoff", !.msg = "block"]
    ELSE IF ~Parser_check(p, "RIGHT_BRACE") /\ ~Parser_is_at_end(p)
    THEN Then(Parser_declaration(p, depth), LAMBDA r :
              Parser_block(r, Append(statements, r.node), depth))
    ELSE Then(Parser_consume(p, "RIGHT_BRACE", "Expect '}' after block."), LAMBDA r :
              [r EXCEPT !.node = statements])

StatementKeywords == {"CLASS", "FUN", "VAR", "FOR", "IF", "WHILE", "PRINT", "RETURN"}

RECURSIVE discard(_)
\* The while loop of synchronize.
discard(p) ==
    IF Parser_is_at_end(p) \/ Parser_previous(p).type = "SEMICOLON"
       \/ Parser_peek(p).type \in StatementKeywords
    THEN p
    ELSE discard(Parser_advance(p))

\* A synchronize that discards the rest of the tokens.
synchronize_to_end(p) == [p EXCEPT !.current = Len(p.tokens) - 1]

\* A synchronize without its first advance.
synchronize_in_place(p) == discard(p)

synchronize(p) == discard(Parser_advance(p))

\* except ParseError: self.synchronize(); return None
recover(p, depth) ==
    Bind(synchronize([p EXCEPT !.sig = "ok", !.msg = ""]), LAMBDA r :
         Note([r EXCEPT !.node = NoneNode],
              ParseEvent("synchronize", p.current, r.current, p.msg, NoneNode, NoneNode,
                         NoneNode, r.sig, depth)))

\* Parser.declaration called from parse (depth 0) or from a block.
Parser_declaration(p, depth) ==
    Bind(Bind(IF Parser_matches(p, {"VAR"}) THEN var_declaration(Parser_advance(p))
              ELSE Parser_statement(p, depth), LAMBDA r :
              IF r.sig = "ParseError" THEN recover(r, depth) ELSE r), LAMBDA d :
         Note(d, ParseEvent("declaration", p.current, d.current, "", NoneNode, NoneNode,
                            d.node, d.sig, depth)))

RECURSIVE parse_from(_, _)
\* The while loop of parse with the statements it has collected so far.
parse_from(p, statements) ==
    IF stalled(p, statements) THEN [p EXCEPT !.sig = "Cutoff", !.msg = "parse"]
    ELSE IF Parser_is_at_end(p) THEN [p EXCEPT !.node = statements]
    ELSE Then(Parser_declaration(p, 0), LAMBDA r :
              parse_from(r, Append(statements, r.node)))

\* Parser.parse
parse(p) == parse_from(p, <<>>)

-----------------------------------------------------------------------------
(* The corpus: the programs the driver is run on, as the trees the parser  *)
(* of the language builds for the source text in the comments.  All tokens *)
(* are on line 1, as in a line typed at the prompt.                        *)

Id(lexeme) == Ident(lexeme, 1)
Ref(id, lexeme) == Variable(id, Id(lexeme))
Op(type) == Token(type, "", Nil, 1)
Paren == Token("RIGHT_PAREN", ")", Nil, 1)
ReturnKw == Token("RETURN", "return", Nil, 1)
Num(n) == Literal(Number(n))
Text(t) == Literal(Str(t))
CallOf(id, lexeme, arguments) == Call(Ref(id, lexeme), Paren, arguments)

FunctionDecl(k) ==
    CASE k = 1 ->   \* fun f() { print a; }
           [name |-> Id("f"), params |-> <<>>, body |-> <<PrintStmt(Ref(1, "a"))>>]
      [] k = 2 ->   \* fun make() { var x = 0; fun inc() {...} return inc; }
           [name |-> Id("make"), params |-> <<>>,
            body |-> <<Var(Id("x"), Num(0)), Function(3), Return(ReturnKw, Ref(3, "inc"))>>]
      [] k = 3 ->   \* fun inc() { x = x + 1; return x; }
           [name |-> Id("inc"), params |-> <<>>,
            body |-> <<Expression(Assign(4, Id("x"), Binary(Ref(5, "x"), Op("PLUS"), Num(1)))),
                       Return(ReturnKw, Ref(6, "x"))>>]
      [] k = 4 ->   \* fun h() { { { return "r"; } } }
           [name |-> Id("h"), params |-> <<>>,
            body |-> <<Block(<<Block(<<Return(ReturnKw, Text("r"))>>)>>)>>]
      [] k = 5 ->   \* fun bad() { { return -nil; } }
           [name |-> Id("bad"), params |-> <<>>,
            body |-> <<Block(<<Return(ReturnKw, Unary(Op("MINUS"), Literal(Nil)))>>)>>]
      [] k = 6 ->   \* fun bump() { n = n + 1; return n; }
           [name |-> Id("bump"), params |-> <<>>,
            body |-> <<Expression(Assign(7, Id("n"), Binary(Ref(8, "n"), Op("PLUS"), Num(1)))),
                       Return(ReturnKw, Ref(9, "n"))>>]
      [] k = 7 ->   \* fun same(p) { return p; }
           [name |-> Id("same"), params |-> <<Id("p")>>,
            body |-> <<Return(ReturnKw, Ref(10, "p"))>>]
      [] k = 8 ->   \* fun w() { while (true) { return "w"; } }
           [name |-> Id("w"), params |-> <<>>,
            body |-> <<While(Literal(Bool(TRUE)), Block(<<Return(ReturnKw, Text("w"))>>))>>]
      [] k = 9 ->   \* fun k() { return 1; }
           [name |-> Id("k"), params |-> <<>>, body |-> <<Return(ReturnKw, Num(1))>>]
      [] k = 10 ->  \* fun f() {}
           [name |-> Id("f"), params |-> <<>>, body |-> <<>>]
      [] k = 12 ->  \* fun one(p) { return 1; }
           [name |-> Id("one"), params |-> <<Id("p")>>, body |-> <<Return(ReturnKw, Num(1))>>]
      [] OTHER ->   \* fun g() {}
           [name |-> Id("g"), params |-> <<>>, body |-> <<>>]

\* var a = "g"; { fun f() { print a; } var a = "l"; f(); }
Closure ==
    <<Var(Id("a"), Text("g")),
      Block(<<Function(1), Var(Id("a"), Text("l")), Expression(CallOf(2, "f", <<>>))>>)>>

\* fun make() { var x = 0; fun inc() { x = x + 1; return x; } return inc; }
\* var c = make(); print c(); print c();
Counter ==
    <<Function(2), Var(Id("c"), CallOf(11, "make", <<>>)),
      PrintStmt(CallOf(12, "c", <<>>)), PrintStmt(CallOf(13, "c", <<>>))>>

\* fun h() { { { return "r"; } } } { print h(); }
CallFromBlock == <<Function(4), Block(<<PrintStmt(CallOf(14, "h", <<>>))>>)>>

\* var g = 1; { { print -"s"; } } print "after";
ErrorInBlock ==
    <<Var(Id("g"), Num(1)),
      Block(<<Block(<<PrintStmt(Unary(Op("MINUS"), Text("s")))>>)>>),
      PrintStmt(Text("after"))>>

\* print g;
ReadGlobal == <<PrintStmt(Ref(15, "g"))>>

\* return 1; print "after";
TopReturn == <<Return(ReturnKw, Num(1)), PrintStmt(Text("after"))>>

\* { var b = "l"; { print b; } print b; }
SameLine ==
    <<Block(<<Var(Id("b"), Text("l")), Block(<<PrintStmt(Ref(16, "b"))>>),
              PrintStmt(Ref(17, "b"))>>)>>

\* var i = 0; while (i < 2) { print i; i = i + 1; }
WhileCount ==
    <<Var(Id("i"), Num(0)),
      While(Binary(Ref(18, "i"), Op("LESS"), Num(2)),
            Block(<<PrintStmt(Ref(19, "i")),
                    Expression(Assign(20, Id("i"), Binary(Ref(21, "i"), Op("PLUS"), Num(1))))>>))>>

\* fun bad() { { return -nil; } } { bad(); print "after"; }
ErrorInFunction ==
    <<Function(5), Block(<<Expression(CallOf(22, "bad", <<>>)), PrintStmt(Text("after"))>>)>>

\* var n = 0; fun bump() { n = n + 1; return n; } print bump(); print bump();
GlobalCounter ==
    <<Var(Id("n"), Num(0)), Function(6),
      PrintStmt(CallOf(23, "bump", <<>>)), PrintStmt(CallOf(24, "bump", <<>>))>>

\* fun same(p) { return p; } print same(7);
Parameter == <<Function(7), PrintStmt(CallOf(25, "same", <<Num(7)>>))>>

\* fun w() { while (true) { return "w"; } } print w();
ReturnInWhile == <<Function(8), PrintStmt(CallOf(26, "w", <<>>))>>

\* { fun k() { return 1; } { print k(); } }
LocalFunction ==
    <<Block(<<Function(9), Block(<<PrintStmt(CallOf(27, "k", <<>>))>>)>>)>>

\* var a = 0; (a = "s")(a = 1, a = 2); print "after";
CallNonCallable ==
    <<Var(Id("a"), Num(0)),
      Expression(Call(Grouping(Assign(50, Id("a"), Text("s"))), Paren,
                      <<Assign(51, Id("a"), Num(1)), Assign(52, Id("a"), Num(2))>>)),
      PrintStmt(Text("after"))>>

\* fun one(p) { return 1; } var a = 0; (a = one)(a = 1, a = 2);
CallArity ==
    <<Function(12), Var(Id("a"), Num(0)),
      Expression(Call(Grouping(Assign(53, Id("a"), Ref(54, "one"))), Paren,
                      <<Assign(55, Id("a"), Num(1)), Assign(60, Id("a"), Num(2))>>))>>

\* fun one(p) { return 1; } var a = 0; print (a = one)(a = 7); print a;
CallOrder ==
    <<Function(12), Var(Id("a"), Num(0)),
      PrintStmt(Call(Grouping(Assign(56, Id("a"), Ref(57, "one"))), Paren,
                     <<Assign(58, Id("a"), Num(7))>>)),
      PrintStmt(Ref(59, "a"))>>

\* { var d = 1; var d = 2; print d; }
RedeclareLocal ==
    <<Block(<<Var(Id("d"), Num(1)), Var(Id("d"), Num(2)), PrintStmt(Ref(61, "d"))>>)>>

\* var d = 1; var d = 2; print d;
RedeclareGlobal ==
    <<Var(Id("d"), Num(1)), Var(Id("d"), Num(2)), PrintStmt(Ref(62, "d"))>>

\* { var e = e; } { var v = 1; var v = 2; } return 1;
ResolverErrors ==
    <<Block(<<Var(Id("e"), Ref(63, "e"))>>),
      Block(<<Var(Id("v"), Num(1)), Var(Id("v"), Num(2))>>),
      Return(ReturnKw, Num(1))>>

Corpus ==
    <<[name |-> "Closure", statements |-> Closure],
      [name |-> "Counter", statements |-> Counter],
      [name |-> "CallFromBlock", statements |-> CallFromBlock],
      [name |-> "ErrorInBlock", statements |-> ErrorInBlock],
      [name |-> "ReadGlobal", statements |-> ReadGlobal],
      [name |-> "TopReturn", statements |-> TopReturn],
      [name |-> "SameLine", statements |-> SameLine],
      [name |-> "WhileCount", statements |-> WhileCount],
      [name |-> "ErrorInFunction", statements |-> ErrorInFunction],
      [name |-> "GlobalCounter", statements |-> GlobalCounter],
      [name |-> "Parameter", statements |-> Parameter],
      [name |-> "ReturnInWhile", statements |-> ReturnInWhile],
      [name |-> "LocalFunction", statements |-> LocalFunction],
      [name |-> "CallNonCallable", statements |-> CallNonCallable],
      [name |-> "CallArity", statements |-> CallArity],
      [name |-> "CallOrder", statements |-> CallOrder],
      [name |-> "RedeclareLocal", statements |-> RedeclareLocal],
      [name |-> "RedeclareGlobal", statements |-> RedeclareGlobal],
      [name |-> "ResolverErrors", statements |-> ResolverErrors]>>

(* The operator programs: one statement form per operator of the claims,   *)
(* over two operand expressions A and B drawn from Operands.  Each starts  *)
(* with  fun f() {} fun g() {}  so that an operand can be a function.      *)

Operand(k, id) ==
    CASE k = 1 -> Literal(Nil)
      [] k = 2 -> Literal(Bool(TRUE))
      [] k = 3 -> Literal(Bool(FALSE))
      [] k = 4 -> Num(0)
      [] k = 5 -> Num(1)
      [] k = 6 -> Text("")
      [] k = 7 -> Text("x")
      [] k = 8 -> Ref(id, "clock")
      [] k = 9 -> Ref(id, "f")
      [] OTHER -> Ref(id, "g")

OperandChoices == 1..10

Prelude == <<Function(10), Function(11)>>

\* if (A) print "then"; else print "else";
IfProgram(a) ==
    Prelude \o <<If(Operand(a, 31), PrintStmt(Text("then")), PrintStmt(Text("else")))>>

\* var c = A; while (c) { print "body"; c = nil; }
WhileProgram(a) ==
    Prelude \o <<Var(Id("c"), Operand(a, 32)),
                 While(Ref(33, "c"),
                       Block(<<PrintStmt(Text("body")),
                               Expression(Assign(34, Id("c"), Literal(Nil)))>>))>>

\* print !A;
NotProgram(a) == Prelude \o <<PrintStmt(Unary(Op("BANG"), Operand(a, 35)))>>

\* var r = "unset"; print A or (r = B); print r;     (and likewise for and)
LogicalProgram(type, a, b) ==
    Prelude \o <<Var(Id("r"), Text("unset")),
                 PrintStmt(Logical(Operand(a, 36), Op(type),
                                   Grouping(Assign(37, Id("r"), Operand(b, 38))))),
                 PrintStmt(Ref(39, "r"))>>

\* print A == B;     (and likewise for !=)
EqualityProgram(type, a, b) ==
    Prelude \o <<PrintStmt(Binary(Operand(a, 40), Op(type), Operand(b, 41)))>>

\* print A;
PrintProgram(a) == Prelude \o <<PrintStmt(Operand(a, 42))>>

\* var l; var r; print (l = A) + (r = B); print "after";     (and likewise
\* for - * / > >= < <=)
ArithmeticProgram(type, a, b) ==
    Prelude \o <<Var(Id("l"), NoneNode), Var(Id("r"), NoneNode),
                 PrintStmt(Binary(Grouping(Assign(43, Id("l"), Operand(a, 44))), Op(type),
                                  Grouping(Assign(45, Id("r"), Operand(b, 46))))),
                 PrintStmt(Text("after"))>>

ArithmeticOperators ==
    <<"PLUS", "MINUS", "STAR", "SLASH", "GREATER", "GREATER_EQUAL", "LESS", "LESS_EQUAL">>

OperatorPrograms(a, b) ==
    <<[name |-> "If", statements |-> IfProgram(a)],
      [name |-> "While", statements |-> WhileProgram(a)],
      [name |-> "Not", statements |-> NotProgram(a)],
      [name |-> "Or", statements |-> LogicalProgram("OR", a, b)],
      [name |-> "And", statements |-> LogicalProgram("AND", a, b)],
      [name |-> "Equal", statements |-> EqualityProgram("EQUAL_EQUAL", a, b)],
      [name |-> "NotEqual", statements |-> EqualityProgram("BANG_EQUAL", a, b)],
      [name |-> "Print", statements |-> PrintProgram(a)]>>
    \o [i \in DOMAIN ArithmeticOperators |->
           [name |-> ArithmeticOperators[i],
            statements |-> ArithmeticProgram(ArithmeticOperators[i], a, b)]]

\* time_ns() / 1e6 as Clock.call may read it.
ClockReadings == {0, 1}

-----------------------------------------------------------------------------
(* The state machine.                                                      *)

NoLocals == [key \in {} |-> 0]

Nothing ==
    [op |-> "none", program |-> "", result |-> "returned", exception |-> "",
     out |-> <<>>, trace |-> <<>>]

\* Interpreter.__init__ and Pylox.__init__
InitInterpreter ==
    /\ envs = <<[values |-> ("clock" :> Clock), enclosing |-> 0]>>
    /\ environment = 1
    /\ locals = NoLocals
    /\ had_error = FALSE
    /\ had_runtime_error = FALSE
    /\ objects = 0
    /\ last = Nothing
    /\ lines = 0

\* No source text: the programs of the corpus are given as syntax trees.
NoSource == source = <<>> /\ tokens = <<>>

Init == NoSource /\ operands = <<1, 1>> /\ InitInterpreter

InitOperators ==
    NoSource /\ operands \in OperandChoices \X OperandChoices /\ InitInterpreter

\* The process is alive: no exception has left the driver.
Alive == last.result = "returned"

Outcome(sig) == IF sig = "ok" THEN "returned" ELSE IF sig = "Cutoff" THEN "cutoff" ELSE "raised"

\* Pylox.run on a source whose scan and parse give `program` without error.
run(program, now) ==
    LET s == [envs |-> envs, environment |-> environment, objects |-> objects,
              had_runtime_error |-> had_runtime_error, out |-> <<>>, trace |-> <<>>,
              sig |-> "ok", val |-> Nil, msg |-> "", tok |-> NoToken,
              steps |-> MaxSteps, now |-> now]
    IN  \E r \in {IF had_error THEN s ELSE interpret(program.statements, s)} :
        /\ envs' = r.envs
        /\ environment' = r.environment
        /\ objects' = r.objects
        /\ had_runtime_error' = r.had_runtime_error
        /\ last' = [op |-> "run", program |-> program.name, result |-> Outcome(r.sig),
                    exception |-> IF r.sig = "ok" THEN "" ELSE r.msg,
                    out |-> r.out, trace |-> r.trace]
        /\ lines' = lines + 1
        /\ UNCHANGED <<source, tokens, operands, locals, had_error>>

Run(i, now) ==
    /\ Alive
    /\ lines < MaxLines
    /\ run(Corpus[i], now)

RunOperator(i, now) ==
    /\ Alive
    /\ lines < MaxLines
    /\ run(OperatorPrograms(operands[1], operands[2])[i], now)

\* Resolver(interpreter).resolve(statements)
Resolve(i) ==
    /\ Alive
    /\ lines < MaxLines
    /\ \E r \in {resolve([scopes |-> <<>>, current_function |-> "NONE",
                            locals |-> locals, sig |-> "ok", msg |-> "",
                            trace |-> <<>>],
                           Corpus[i].statements, 1)} :
           /\ locals' = r.locals
           /\ last' = [op |-> "resolve", program |-> Corpus[i].name,
                       result |-> Outcome(r.sig), exception |-> r.msg,
                       out |-> <<>>, trace |-> r.trace]
    /\ lines' = lines + 1
    /\ UNCHANGED <<source, tokens, operands, envs, environment, had_error, had_runtime_error, objects>>

Next ==
    \/ \E i \in 1..Len(Corpus), now \in ClockReadings : Run(i, now)
    \/ \E i \in 1..Len(Corpus) : Resolve(i)

NextOperators ==
    \E i \in 1..Len(OperatorPrograms(1, 1)), now \in ClockReadings : RunOperator(i, now)

(* The environment specification: Environment objects in one chain, each  *)
(* enclosing the one made before it, and calls of define, assign and get   *)
(* on any of them.                                                         *)

EnvNames == {"a", "b"}

\* The evaluator's record around the heap, for one call of a method.
Calling ==
    [envs |-> envs, environment |-> 1, objects |-> 0, had_runtime_error |-> FALSE,
     out |-> <<>>, trace |-> <<>>, sig |-> "ok", val |-> Nil, msg |-> "",
     tok |-> NoToken, steps |-> 0, now |-> 0]

Called(op, e, name, value, r) ==
    [op |-> op, e |-> e, name |-> name, value |-> value, before |-> envs,
     result |-> r.sig, val |-> r.val, tok |-> r.tok, msg |-> r.msg]

\* Environment(enclosing)
EnvNew ==
    /\ Len(envs) < MaxEnvs
    /\ envs' = Append(envs, Environment(Len(envs)))
    /\ last' = Called("new", Len(envs) + 1, "", Nil, Calling)
    /\ UNCHANGED <<source, tokens, operands, environment, locals, had_error, had_runtime_error, objects, lines>>

\* environment.define(name, value)
EnvDefine(e, name) ==
    /\ \E r \in {define(Calling, e, name, Number(1))} :
           /\ envs' = r.envs
           /\ last' = Called("define", e, name, Number(1), r)
    /\ UNCHANGED <<source, tokens, operands, environment, locals, had_error, had_runtime_error, objects, lines>>

\* environment.assign(name, value)
EnvAssign(e, name) ==
    /\ \E r \in {assign(Calling, e, Ident(name, 1), Number(2))} :
           /\ envs' = r.envs
           /\ last' = Called("assign", e, name, Number(2), r)
    /\ UNCHANGED <<source, tokens, operands, environment, locals, had_error, had_runtime_error, objects, lines>>

\* environment.get(name)
EnvGet(e, name) ==
    /\ \E r \in {get(Calling, e, Ident(name, 1))} :
           /\ envs' = r.envs
           /\ last' = Called("get", e, name, Nil, r)
    /\ UNCHANGED <<source, tokens, operands, environment, locals, had_error, had_runtime_error, objects, lines>>

NextEnvironment ==
    \/ EnvNew
    \/ \E e \in DOMAIN envs, name \in EnvNames : EnvDefine(e, name)
    \/ \E e \in DOMAIN envs, name \in EnvNames : EnvAssign(e, name)
    \/ \E e \in DOMAIN envs, name \in EnvNames : EnvGet(e, name)

SpecEnvironment == Init /\ [][NextEnvironment]_vars

(* The scanner specification: every source of up to MaxSource characters   *)
(* over SourceChars, scanned by Scanner(source).scan_tokens().             *)

SourceChars == {"1", ".", "\"", "\n", "/", "a", "@", " ", "="}

Sources == UNION {[1..n -> SourceChars] : n \in 0..MaxSource}

InitScanner ==
    source \in Sources /\ tokens = <<>> /\ operands = <<1, 1>> /\ InitInterpreter

\* tokens = Scanner(self, source).scan_tokens()
Scan ==
    /\ Alive
    /\ lines < MaxLines
    /\ \E r \in {scan_tokens(Scanner(source))} :
           /\ tokens' = r.tokens
           /\ had_error' = (had_error \/ r.had_error)
           /\ last' = [op |-> "scan", program |-> "", result |-> Outcome(r.sig),
                       exception |-> r.msg, out |-> r.out, trace |-> <<>>]
    /\ lines' = lines + 1
    /\ UNCHANGED <<source, operands, envs, environment, locals, had_runtime_error, objects>>

NextScanner == Scan

SpecScanner == InitScanner /\ [][NextScanner]_vars

(* The parser specification: every list of up to MaxTokens tokens over     *)
(* ParserTokens followed by EOF, all on line 1, parsed by                  *)
(* Parser(tokens).parse().                                                 *)

ParserTokens ==
    {Token("NUMBER", "1", Number(1), 1), Token("IDENTIFIER", "a", Nil, 1),
     Token("EQUAL", "=", Nil, 1), Token("SEMICOLON", ";", Nil, 1),
     Token("PRINT", "print", Nil, 1), Token("LEFT_BRACE", "{", Nil, 1),
     Token("RIGHT_BRACE", "}", Nil, 1)}

TokenLists ==
    {toks \o <<Token("EOF", "", Nil, 1)>> :
        toks \in UNION {[1..n -> ParserTokens] : n \in 0..MaxTokens}}

InitParser ==
    source = <<>> /\ tokens \in TokenLists /\ operands = <<1, 1>> /\ InitInterpreter

\* statements = Parser(self, tokens).parse()
Parse ==
    /\ Alive
    /\ lines < MaxLines
    /\ \E r \in {parse(Parser(tokens))} :
           /\ had_error' = (had_error \/ r.had_error)
           /\ last' = [op |-> "parse", program |-> "", result |-> Outcome(r.sig),
                       exception |-> r.msg, out |-> r.out,
                       trace |-> Append(r.trace,
                                        ParseEvent("parse", 0, r.current, "", NoneNode,
                                                   NoneNode, r.node, r.sig, 0))]
    /\ lines' = lines + 1
    /\ UNCHANGED <<source, tokens, operands, envs, environment, locals, had_runtime_error, objects>>

NextParser == Parse

SpecParser == InitParser /\ [][NextParser]_vars

(* The source specification: Pylox.run on every source of up to MaxWords  *)
(* words over Words.                                                       *)

Words ==
    {<<"p", "r", "i", "n", "t", " ">>, <<"1">>, <<";">>, <<"=">>, <<"\"">>, <<"@">>, <<".">>,
     <<"a">>, <<"-", "1">>, <<"*", "1">>, <<" ", "o", "r", " ", "a">>,
     <<"f", "o", "r", "(", ";", ";", ")">>}

RECURSIVE WordSources(_)
WordSources(n) ==
    IF n = 0 THEN {<<>>}
    ELSE WordSources(n - 1) \cup {text \o word : text \in WordSources(n - 1), word \in Words}

InitSource ==
    source \in WordSources(MaxWords) /\ tokens = <<>> /\ operands = <<1, 1>>
        /\ InitInterpreter

\* What the scanner printed: each line is the report of a lexical error.
lexical_errors(z) ==
    [i \in DOMAIN z.out |->
        ParseEvent("lexical", 0, 0, z.out[i], NoneNode, NoneNode, NoneNode, "ok", 0)]

\* Pylox.run(text): scan, parse, return if had_error, interpret.  An
\* exception of the scanner leaves run before the parser is made.  The
\* result holds the tokens scanned, had_error after the run, the record of
\* the interpreter, and everything printed and noted.
Pylox_run(text, now) ==
    LET s == [envs |-> envs, environment |-> environment, objects |-> objects,
              had_runtime_error |-> had_runtime_error, out |-> <<>>, trace |-> <<>>,
              sig |-> "ok", val |-> Nil, msg |-> "", tok |-> NoToken,
              steps |-> MaxSteps, now |-> now]
    IN  Bind(scan_tokens(Scanner(text)), LAMBDA z :
        Bind(IF z.sig = "ok" THEN parse(Parser(z.tokens)) ELSE Parser(<<>>), LAMBDA p :
        Bind(IF z.sig # "ok" THEN [s EXCEPT !.sig = z.sig, !.msg = z.msg]
             ELSE IF had_error \/ z.had_error \/ p.had_error THEN s
             ELSE interpret(p.node, s), LAMBDA r :
             [tokens |-> z.tokens,
              had_error |-> (had_error \/ z.had_error \/ p.had_error),
              r |-> r,
              out |-> z.out \o p.out \o r.out,
              trace |-> lexical_errors(z) \o p.trace \o r.trace])))

\* self.run(source) on the source of the state.
run_source(now) ==
    \E o \in {Pylox_run(source, now)} :
        /\ tokens' = o.tokens
        /\ had_error' = o.had_error
        /\ envs' = o.r.envs
        /\ environment' = o.r.environment
        /\ objects' = o.r.objects
        /\ had_runtime_error' = o.r.had_runtime_error
        /\ last' = [op |-> "run_source", program |-> "", result |-> Outcome(o.r.sig),
                    exception |-> IF o.r.sig = "ok" THEN "" ELSE o.r.msg,
                    out |-> o.out, trace |-> o.trace]
        /\ lines' = lines + 1
        /\ UNCHANGED <<source, operands, locals>>

RunSource(now) ==
    /\ Alive
    /\ lines < MaxLines
    /\ run_source(now)

NextSource == \E now \in ClockReadings : RunSource(now)

SpecSource == InitSource /\ [][NextSource]_vars

(* The prompt specification: Pylox.run_prompt reading up to MaxPrompts    *)
(* lines, each one of PromptLines.                                         *)

PromptLines ==
    {<<>>,
     <<"v", "a", "r", " ", "a", "=", "1", ";">>,
     <<"p", "r", "i", "n", "t", " ", "a", ";">>,
     <<"v", "a", "r", " ", "b", "=", "a", ";">>,
     <<"p", "r", "i", "n", "t", " ", "b", ";">>,
     <<"p", "r", "i", "n", "t", " ", ";">>,
     <<"@">>,
     <<"1", ".">>}

InitPrompt == NoSource /\ operands = <<1, 1>> /\ InitInterpreter

\* One iteration of the loop of run_prompt: an empty line ends the loop;
\* any other line is run and had_error is cleared.  An exception that
\* leaves run leaves run_prompt before had_error is cleared.
Prompt(line, now) ==
    /\ Alive
    /\ lines < MaxPrompts
    /\ source' = line
    /\ lines' = lines + 1
    /\ IF line = <<>>
       THEN /\ last' = [op |-> "prompt", program |-> "", result |-> "exited",
                        exception |-> "", out |-> <<>>, trace |-> <<>>]
            /\ UNCHANGED <<tokens, had_error, envs, environment, objects, had_runtime_error>>
       ELSE \E o \in {Pylox_run(line, now)} :
            /\ tokens' = o.tokens
            /\ had_error' = IF o.r.sig = "ok" THEN FALSE ELSE o.had_error
            /\ envs' = o.r.envs
            /\ environment' = o.r.environment
            /\ objects' = o.r.objects
            /\ had_runtime_error' = o.r.had_runtime_error
            /\ last' = [op |-> "prompt", program |-> "", result |-> Outcome(o.r.sig),
                        exception |-> IF o.r.sig = "ok" THEN "" ELSE o.r.msg,
                        out |-> o.out, trace |-> o.trace]
    /\ UNCHANGED <<operands, locals>>

NextPrompt == \E line \in PromptLines, now \in ClockReadings : Prompt(line, now)

SpecPrompt == InitPrompt /\ [][NextPrompt]_vars

Spec == Init /\ [][Next]_vars

SpecOperators == InitOperators /\ [][NextOperators]_vars

-----------------------------------------------------------------------------
(* The properties.  Each is stated over the last operation: its outcome,   *)
(* what it printed and the events of its walk.                             *)

Events == {last.trace[i] : i \in DOMAIN last.trace}

EventsOf(k) == {e \in Events : e.k = k}

Indices(k) == {i \in DOMAIN last.trace : last.trace[i].k = k}

Ran(name) == last.op = "run" /\ last.program = name

\* The language's rule: nil and false are falsey, every other value is truthy.
Truthy(v) == ~(v.t = "nil" \/ (v.t = "bool" /\ v.n = 0))

\* The language's equality: same variant and equal by value.
Variant(v) == IF v.t \in {"fun", "clock"} THEN "callable" ELSE v.t

LoxEqual(a, b) == Variant(a) = Variant(b) /\ a = b

\* C1: every value tested by an if statement, a while statement or unary !
\* is taken as false exactly when it is nil or false; 0 and "" are truthy.
C1_Truthiness ==
    \A e \in EventsOf("test") : e.r = Bool(Truthy(e.a))

\* C2: a logical expression returns its left operand, without evaluating
\* the right one, when the left is truthy (or) or falsey (and) by the
\* language's rule; otherwise it evaluates the right operand and returns it.
C2_ShortCircuit ==
    \A e \in EventsOf("logical") :
        IF (e.op = "OR") = Truthy(e.a)
        THEN e.p = 0 /\ e.r = e.a
        ELSE e.p = 1 /\ e.r = e.b

\* C3: == is true only for two values of the same variant that are equal by
\* value, != is its negation, and neither raises a runtime error.
C3_Equality ==
    /\ \A e \in EventsOf("equality") :
           e.r = Bool(IF e.op = "EQUAL_EQUAL" THEN LoxEqual(e.a, e.b)
                      ELSE ~LoxEqual(e.a, e.b))
    /\ (last.program \in {"Equal", "NotEqual"} => last.result = "returned" /\ ~had_runtime_error)

\* C4: a reference in a function body reads the binding lexically visible
\* where it is written:  var a="g"; { fun f(){print a;} var a="l"; f(); }
\* prints g.
C4_LexicalScope ==
    Ran("Closure") => last.result = "returned" /\ last.out = <<"g">>

\* C5: a function value's closure is the environment current at its
\* Function statement, and every call runs the body in a new environment
\* whose enclosing link is that closure, whatever is current at the call.
C5_Closure ==
    /\ \A e \in EventsOf("function") : e.a.c = e.p
    /\ \A e \in EventsOf("call") : e.q = e.a.c /\ e.p # e.x /\ e.p # e.q
    /\ \A i, j \in Indices("call") : i # j => last.trace[i].p # last.trace[j].p

\* A call made where the current environment is not the function's closure.
C5_CalledFromElsewhere ==
    /\ Ran("CallFromBlock")
    /\ last.out = <<"r">>
    /\ \E e \in EventsOf("call") : e.x # e.a.c /\ e.q = e.a.c

\* C6: an assignment to a captured local writes the local, so a closure
\* keeps state across calls: the counter program prints 1 then 2.
C6_AssignLocal ==
    Ran("Counter") => last.result = "returned" /\ last.out = <<"1", "2">>

\* C7: the side-table is keyed by the identity of the Variable node: the
\* distance recorded for a reference is the distance found for it, whatever
\* is recorded for another reference of the same name on the same line.
C7_KeyedByIdentity ==
    last.op = "resolve" =>
        \A e \in EventsOf("resolve") :
            locals[VariableKey(Variable(e.x, Ident(e.op, e.q)))] = e.p

\* C8: a block or function body leaves the current environment as it found
\* it on every exit path, so after every run it is the globals environment.
C8_EnvironmentRestored ==
    /\ environment = 1
    /\ \A e \in EventsOf("block") : e.q = e.p

\* A runtime error and a return signal each left through nested blocks.
C8_ExitThroughBlocks ==
    /\ Ran("ErrorInFunction")
    /\ \E i, j \in Indices("block") :
           /\ i < j
           /\ last.trace[i].op = "RuntimeError" /\ last.trace[j].op = "RuntimeError"
           /\ last.trace[i].p # last.trace[j].p
    /\ environment = 1

RuntimeErrorRaised == \E e \in EventsOf("raise") : e.op = "RuntimeError"

\* C9: when a statement raises a runtime error no later statement is
\* executed, the reporter is called exactly once and sets the flag,
\* interpret returns normally, and the globals defined before the error
\* are still bound.
C9_RuntimeErrorStops ==
    (last.op = "run" /\ RuntimeErrorRaised) =>
        /\ \A i \in Indices("raise"), j \in Indices("statement") : j < i
        /\ Cardinality(Indices("report")) = 1
        /\ had_runtime_error
        /\ last.result = "returned"
        /\ \A e \in EventsOf("define") \cup EventsOf("function") :
               e.p = 1 => e.op \in DOMAIN envs[1].values

\* The error of the second of three statements, reported; g is still bound.
C9_ErrorReported ==
    /\ Ran("ErrorInBlock")
    /\ last.out = <<"Operand must be a number.", "[line 1]">>
    /\ had_runtime_error
    /\ envs[1].values["g"] = Number(1)

\* C10: a return signal is never caught by interpret, never passed to the
\* runtime-error reporter and never sets the flag.
C10_ReturnIsNoError ==
    \A e \in EventsOf("report") : e.op # "Return"

\* The Assign nodes evaluated by the last run, in the order of evaluation,
\* each followed by the calls started, marked 0.
RECURSIVE Order(_)
Order(i) ==
    IF i > Len(last.trace) THEN <<>>
    ELSE IF last.trace[i].k = "assign" THEN <<last.trace[i].x>> \o Order(i + 1)
    ELSE IF last.trace[i].k = "call" THEN <<0>> \o Order(i + 1)
    ELSE Order(i + 1)

\* C11: a call evaluates the callee, then the arguments left to right, then
\* checks that the callee is callable, then its arity, then invokes it; a
\* failed check starts no call, after the operands' side effects.
C11_CallOrder ==
    /\ Ran("CallNonCallable") =>
           /\ Order(1) = <<50, 51, 52>>
           /\ last.out = <<"Can only call functions and classes.", "[line 1]">>
           /\ envs[1].values["a"] = Number(2)
    /\ Ran("CallArity") =>
           /\ Order(1) = <<53, 55, 60>>
           /\ last.out = <<"Expected 1 arguments but got 2.", "[line 1]">>
           /\ envs[1].values["a"] = Number(2)
    /\ Ran("CallOrder") =>
           /\ Order(1) = <<56, 58, 0>>
           /\ last.out = <<"1", "7">>
    /\ \A e \in EventsOf("call") :
           /\ isinstance_LoxCallable(e.a)
           /\ {FunctionDecl(e.a.n).params[i].lexeme :
                   i \in 1..Len(FunctionDecl(e.a.n).params)} \subseteq DOMAIN envs[e.p].values

\* A call of a string with two assigning arguments: both ran, no call started.
C11_ChecksAfterOperands ==
    /\ Ran("CallNonCallable")
    /\ EventsOf("call") = {}
    /\ envs[1].values["a"] = Number(2)
    /\ had_runtime_error

Resolved(name) == last.op = "resolve" /\ last.program = name

\* C17: a second declaration of a name is accepted at global scope, where
\* the later definition overwrites the earlier, and in a local scope the
\* resolver reports it as a compile error through the reporter.
C17_Redeclaration ==
    /\ Resolved("RedeclareGlobal") => last.result = "returned" /\ ~had_error
    /\ Ran("RedeclareGlobal") => last.out = <<"2">>
    /\ Resolved("RedeclareLocal") => last.result = "returned" /\ had_error

\* C18: every resolver error is reported, sets the compile-error flag, and
\* resolution continues, so the three errors of one program are all
\* reported by one pass.
C18_ResolverErrorsReported ==
    Resolved("ResolverErrors") =>
        /\ last.result = "returned"
        /\ had_error
        /\ Cardinality(Indices("resolver_error")) = 3

\* The frames of the chain of e in heap h that hold name, as distances from e.
Holding(h, e, name) ==
    {d \in 0..Len(h) :
        /\ ancestor([envs |-> h], e, d) # 0
        /\ name \in DOMAIN h[ancestor([envs |-> h], e, d)].values}

\* The innermost frame of the chain of e that holds name.
Innermost(h, e, name) ==
    ancestor([envs |-> h], e,
             CHOOSE d \in Holding(h, e, name) : \A c \in Holding(h, e, name) : d <= c)

Undefined(name) ==
    /\ last.result = "RuntimeError"
    /\ last.tok = Ident(name, 1)
    /\ last.msg = "Undefined Variable '" \o name \o "'."

\* C19: assign replaces the value in the innermost frame of the chain that
\* holds the name and changes nothing else, creating no binding; get
\* returns the value of that frame; both fail with the undefined-variable
\* error, changing nothing, when no frame of the chain holds the name.
C19_AssignAndGet ==
    /\ last.op = "assign" =>
           IF Holding(last.before, last.e, last.name) = {}
           THEN Undefined(last.name) /\ envs = last.before
           ELSE /\ last.result = "ok"
                /\ envs = [last.before EXCEPT
                              ![Innermost(last.before, last.e, last.name)].values[last.name] =
                                  last.value]
                /\ \A f \in DOMAIN envs : DOMAIN envs[f].values = DOMAIN last.before[f].values
    /\ last.op = "get" =>
           /\ envs = last.before
           /\ IF Holding(last.before, last.e, last.name) = {}
              THEN Undefined(last.name)
              ELSE /\ last.result = "ok"
                   /\ last.val = envs[Innermost(envs, last.e, last.name)].values[last.name]

\* An assignment from an inner frame that reached a binding two frames up,
\* past a frame without it, while an outer frame holds another binding.
C19_AssignedInOuterFrame ==
    /\ last.op = "assign" /\ last.e = 3 /\ last.name = "a" /\ last.result = "ok"
    /\ "a" \notin DOMAIN envs[3].values
    /\ "a" \notin DOMAIN envs[2].values
    /\ envs[1].values["a"] = Number(2)
    /\ last.before[1].values["a"] = Number(1)

\* The language's stringification of nil, booleans, numbers and strings.
LoxString(v) ==
    CASE v.t = "nil" -> "nil"
      [] v.t = "bool" -> IF v.n = 1 THEN "true" ELSE "false"
      [] v.t = "num" -> ToString(v.n)
      [] OTHER -> v.s

\* C20: print writes nil as nil, the booleans as true and false, a number
\* of integral value without a trailing .0, and a string as itself.
C20_PrintStringifies ==
    (Ran("Print") /\ operands[1] \in 1..7) =>
        last.out = <<LoxString(Operand(operands[1], 0).value)>>

Newlines == Cardinality({i \in DOMAIN source : source[i] = "\n"})

EndsWithEOF ==
    /\ tokens # <<>>
    /\ tokens[Len(tokens)] = Token("EOF", "", Nil, 1 + Newlines)
    /\ \A i \in 1..(Len(tokens) - 1) : tokens[i].type # "EOF"

\* C13: for every source, scan_tokens returns a list whose last element is
\* its only EOF token, with an empty lexeme and the line of the last
\* newline consumed.
C13_EndsWithEOF ==
    last.op = "scan" => last.result = "returned" /\ EndsWithEOF

\* C14: the scanner raises on no source; an unexpected character is
\* reported and scanning continues at the next character.
C14_ScannerNeverThrows ==
    last.op = "scan" =>
        /\ last.result = "returned"
        /\ (source # <<>> /\ Head(source) = "@") =>
               /\ had_error
               /\ tokens = scan_tokens(Scanner(Tail(source))).tokens

\* The list of statements the last parse returned.
Parsed == last.trace[Len(last.trace)].node

\* C15: when an expression followed by `=` is not a Variable, assignment
\* reports "Invalid assignment target." at the `=` token, raises nothing
\* (so the declaration is not abandoned and no synchronization follows),
\* builds no Assign and returns the left-hand side as it is; when it is a
\* Variable, assignment returns Assign(name, value), and the value of an
\* assignment whose right-hand side is itself an assignment is that
\* assignment (right-associative).
C15_AssignmentTarget ==
    last.op = "parse" =>
        /\ \A i \in Indices("assignment") :
               LET e == last.trace[i]
                   reported == {r \in EventsOf("error") :
                                   r.at = e.at /\ r.message = "Invalid assignment target."}
               IN  /\ tokens[e.at + 1].type = "EQUAL"
                   /\ e.sig = "ok"
                   /\ IF e.lhs.type = "Variable"
                      THEN /\ e.node.type = "Assign"
                           /\ e.node.name = e.lhs.name
                           /\ e.node.value = e.value
                           /\ reported = {}
                      ELSE /\ e.node = e.lhs
                           /\ reported # {}
                           /\ \E j \in DOMAIN last.out :
                                  last.out[j] = "[line 1] Error at '=': Invalid assignment target."
                   /\ \A j \in Indices("assignment") :
                          (last.trace[j].at = e.at + 2 /\ last.trace[j].to = e.to)
                              => e.value = last.trace[j].node
        /\ (\A r \in EventsOf("error") : r.message = "Invalid assignment target.")
               => /\ EventsOf("synchronize") = {}
                  /\ \A i \in DOMAIN Parsed : Parsed[i] # NoneNode

\* `1 = 1;` is parsed to the expression statement `1;`.
C15_InvalidTargetKept ==
    /\ last.op = "parse"
    /\ had_error
    /\ \E e \in EventsOf("assignment") :
           /\ e.lhs.type = "Literal"
           /\ e.value.type = "Literal"
           /\ Parsed = <<Expression(e.lhs)>>

\* The statement keywords at which synchronization stops.
ResumeKeywords == {"CLASS", "FUN", "VAR", "FOR", "IF", "WHILE", "PRINT", "RETURN"}

\* The parser may resume at position c (counted from 0): the token there is
\* EOF or a statement keyword, or the token before it is `;`.
ResumesAt(c) ==
    \/ tokens[c + 1].type = "EOF"
    \/ tokens[c + 1].type \in ResumeKeywords
    \/ c > 0 /\ tokens[c].type = "SEMICOLON"

Least(S) == CHOOSE c \in S : \A d \in S : c <= d

\* The first position from `at` on where the next token is a statement
\* keyword or EOF, or where a `;` after `at` has just been passed.
FirstResumeFrom(at) ==
    Least({c \in at..(Len(tokens) - 1) :
              ResumesAt(c) /\ (tokens[c + 1].type \notin ResumeKeywords \cup {"EOF"} => c > at)})

\* The same once the token at `at` is discarded, unless it is EOF.
FirstResumeAfter(at) ==
    IF tokens[at + 1].type = "EOF" THEN at
    ELSE Least({c \in (at + 1)..(Len(tokens) - 1) : ResumesAt(c)})

\* The declarations parse itself called, in order.
TopDeclarations == SelectSeq(last.trace, LAMBDA e : e.k = "declaration" /\ e.depth = 0)

\* The statement of a declaration of one of the forms  1;  a;  print 1;
\* starting at position c, or None when there is none.
SimpleDeclaration(c) ==
    LET type(i) == IF c + i > Len(tokens) THEN "EOF" ELSE tokens[c + i].type
    IN  IF type(1) = "NUMBER" /\ type(2) = "SEMICOLON"
        THEN Expression(Literal(tokens[c + 1].literal))
        ELSE IF type(1) = "IDENTIFIER" /\ type(2) = "SEMICOLON"
        THEN Expression(Variable(c + 1, tokens[c + 1]))
        ELSE IF type(1) = "PRINT" /\ type(2) = "NUMBER" /\ type(3) = "SEMICOLON"
        THEN PrintStmt(Literal(tokens[c + 2].literal))
        ELSE NoneNode

\* parse returns, its result holds what each of its declarations returned,
\* each declaration starts where the one before it ended or resumed, and a
\* declaration of a simple form is in the result.
ParsingResumes ==
    /\ last.result = "returned"
    /\ Len(Parsed) = Len(TopDeclarations)
    /\ \A i \in DOMAIN TopDeclarations :
           LET d == TopDeclarations[i]
           IN  /\ Parsed[i] = d.node
               /\ d.at = IF i = 1 THEN 0 ELSE TopDeclarations[i - 1].to
               /\ i = Len(TopDeclarations) => tokens[d.to + 1].type = "EOF"
               /\ SimpleDeclaration(d.at) # NoneNode => d.node = SimpleDeclaration(d.at)

\* C16 as stated: after a parse error in a declaration the parser discards
\* tokens until it has just passed a `;` or the next token is a statement
\* keyword or EOF, and resumes there; parse is not halted and the
\* declarations from that point on are in its result.
C16_Synchronize ==
    last.op = "parse" =>
        /\ \A e \in EventsOf("synchronize") : e.to = FirstResumeFrom(e.at)
        /\ ParsingResumes

\* C16, amended: the token at which the error was raised is discarded first,
\* whatever it is (unless it is EOF); from the next token on the parser
\* discards tokens until it has just passed a `;` or the next token is a
\* statement keyword or EOF, and resumes there; the failed declaration is
\* None in the list being built, parse is not halted and the declarations
\* from that point on are in its result.
C16_SynchronizeAfterErrorToken ==
    last.op = "parse" =>
        /\ \A e \in EventsOf("synchronize") : e.to = FirstResumeAfter(e.at)
        /\ \A d \in EventsOf("declaration") :
               (\E e \in EventsOf("synchronize") : e.to = d.to /\ e.depth = d.depth /\ e.at >= d.at)
                   => d.node = NoneNode
        /\ ParsingResumes

\* `= ; 1;`: the error at `=` is recovered from after the `;`, and `1;` is
\* in the result after the None of the failed declaration.
C16_ResumedAfterSemicolon ==
    /\ last.op = "parse"
    /\ \E e \in EventsOf("synchronize") :
           /\ e.depth = 0
           /\ e.to > e.at + 1
           /\ tokens[e.to].type = "SEMICOLON"
           /\ Len(Parsed) = 2
           /\ Parsed[1] = NoneNode
           /\ Parsed[2] = SimpleDeclaration(e.to)
           /\ Parsed[2] # NoneNode

\* The scanner or the parser reported an error during the last run.
CompileErrorReported == EventsOf("lexical") \cup EventsOf("error") # {}

\* C12: when the scanner or the parser reported an error for a source, the
\* flag had_error is set and the interpreter starts no statement of it.
C12_CompileErrorSuppresses ==
    (last.op = "run_source" /\ CompileErrorReported) =>
        /\ had_error
        /\ EventsOf("statement") = {}

\* The operands of the arithmetic program A op B, evaluated left then right,
\* and nothing raised before both are.
BothOperandsFirst ==
    LET assigns == Indices("assign")
    IN  /\ Cardinality(assigns) = 2
        /\ \E i, j \in assigns :
               /\ i < j
               /\ last.trace[i].x = 43 /\ last.trace[j].x = 45
               /\ operands[1] \in 1..7 => last.trace[i].a = Operand(operands[1], 44).value
               /\ operands[2] \in 1..7 => last.trace[j].a = Operand(operands[2], 46).value
               /\ \A k \in Indices("binary") \cup Indices("raise") : j < k
               /\ \A e \in EventsOf("binary") :
                      e.a = last.trace[i].a /\ e.b = last.trace[j].a

\* C21: a binary expression evaluates its left and then its right operand
\* before any type check; + gives a result for two numbers and for two
\* strings and otherwise raises "Operands must be two numbers or two
\* strings."; - * / > >= < <= raise "Operands must be numbers." unless both
\* operands are numbers, and booleans and nil are no numbers; the error
\* carries the operator token.  For two numbers these operators raise no
\* runtime error and give a result, except a division by zero.
C21_BinaryOperands ==
    (last.op = "run"
       /\ last.program \in {ArithmeticOperators[i] : i \in DOMAIN ArithmeticOperators}) =>
        /\ BothOperandsFirst
        /\ Cardinality(Indices("binary")) = 1
        /\ \A e \in EventsOf("binary") :
               LET numbers == e.a.t = "num" /\ e.b.t = "num"
                   strings == e.a.t = "str" /\ e.b.t = "str"
               IN  /\ e.op = last.program
                   /\ IF e.op = "PLUS"
                      THEN IF numbers \/ strings THEN e.p = 0
                           ELSE /\ e.x = "RuntimeError" /\ e.q = 1
                                /\ e.r = Str("Operands must be two numbers or two strings.")
                      ELSE IF numbers
                           THEN e.x # "RuntimeError"
                                  /\ (e.p = 0 \/ (e.op = "SLASH" /\ e.b.n = 0))
                           ELSE /\ e.x = "RuntimeError" /\ e.q = 1
                                /\ e.r = Str("Operands must be numbers.")

\* print (l = true) - (r = 1);  reports the error after both assignments.
C21_BooleanRejected ==
    /\ Ran("MINUS")
    /\ operands = <<2, 5>>
    /\ envs[1].values["l"] = Bool(TRUE)
    /\ envs[1].values["r"] = Number(1)
    /\ last.out = <<"Operands must be numbers.", "[line 1]">>

\* C22: a division of a number by the number zero gives a value and raises
\* nothing: the statement completes, the statement after it runs, and no
\* runtime error and no exception of the host leaves interpret.
C22_DivisionByZero ==
    (Ran("SLASH") /\ operands[1] \in {4, 5} /\ operands[2] = 4) =>
        /\ last.result = "returned"
        /\ ~had_runtime_error
        /\ Len(last.out) = 2
        /\ last.out[2] = "after"

\* The lines of PromptLines that hold a statement and no error.
DefinesA == <<"v", "a", "r", " ", "a", "=", "1", ";">>

PrintsA == <<"p", "r", "i", "n", "t", " ", "a", ";">>

\* C23: every non-empty line read at the prompt is run and the loop goes
\* on, whatever error the line has; had_error is clear after every line, so
\* a line without compile error is evaluated whatever the lines before it
\* were; a global defined by an earlier line is visible to a later line;
\* the loop ends on an empty line only.
C23_PromptContinues ==
    last.op = "prompt" =>
        /\ (last.result = "exited") = (source = <<>>)
        /\ last.result \in {"exited", "returned"}
        /\ ~had_error
        /\ source \in {DefinesA, PrintsA} => EventsOf("statement") # {}
        /\ source = DefinesA => envs[1].values["a"] = Number(1)
        /\ (source = PrintsA /\ "a" \in DOMAIN envs[1].values) => last.out = <<"1">>

\* The statements of the declarations the parser read at top level.
Declared == [i \in DOMAIN TopDeclarations |-> TopDeclarations[i].node]

One == Literal(Number(1))

Minus == Token("MINUS", "-", Nil, 1)

\* C24: the parser accepts a for statement and gives the desugared tree;
\* with no initializer, condition and increment,  for(;;)1;  is a While of
\* the literal true and the body, without Block.
C24_ForDesugared ==
    (last.op = "run_source"
       /\ source = <<"f", "o", "r", "(", ";", ";", ")", "1", ";">>) =>
        /\ EventsOf("error") = {}
        /\ Declared = <<While(Literal(Bool(TRUE)), Expression(One))>>

\* C25: the expression levels are, from the lowest, assignment, or, and,
\* equality, comparison, term, factor, unary, call, primary, the binary
\* ones left-associative:  1-1-1  is (1-1)-1,  1-1*1  is 1-(1*1), and
\* a or a  is a Logical expression.
C25_Precedence ==
    last.op = "run_source" =>
        /\ source = <<"1", "-", "1", "-", "1", ";">>
               => Declared = <<Expression(Binary(Binary(One, Minus, One), Minus, One))>>
        /\ source = <<"1", "-", "1", "*", "1", ";">>
               => Declared = <<Expression(Binary(One, Minus,
                                                 Binary(One, Token("STAR", "*", Nil, 1), One)))>>
        /\ source = <<"a", " ", "o", "r", " ", "a", ";">>
               => /\ EventsOf("error") = {}
                  /\ Declared = <<Expression(Logical(Variable(1, Ident("a", 1)),
                                                     Token("OR", "or", Nil, 1),
                                                     Variable(3, Ident("a", 1))))>>

\* The scopes of `scopes` that hold name, as indices from the outermost.
ScopesHolding(scopes, name) == {i \in DOMAIN scopes : name \in DOMAIN scopes[i]}

\* The resolver recorded a distance for the reference noted at index i of
\* the trace: the next event is the store of that reference.
Recorded(i) ==
    /\ i < Len(last.trace)
    /\ last.trace[i + 1].k = "resolve"
    /\ last.trace[i + 1].x = last.trace[i].x

\* C26: a Variable whose name is in the innermost scope and not yet ready
\* is reported as "Cannot read local variable in its own initializer."
\* through the reporter and gets no entry; any other Variable gets as
\* distance the number of scopes between the innermost scope and the
\* innermost scope that holds its name, and no entry when no scope holds it.
C26_ResolveVariable ==
    last.op = "resolve" =>
        \A i \in Indices("reference") :
            LET e == last.trace[i]
                scopes == e.a.scopes
                holding == ScopesHolding(scopes, e.op)
            IN  IF scopes # <<>> /\ e.op \in DOMAIN scopes[Len(scopes)]
                   /\ ~scopes[Len(scopes)][e.op]
                THEN /\ ~Recorded(i)
                     /\ i < Len(last.trace)
                     /\ last.trace[i + 1].k = "resolver_error"
                     /\ last.trace[i + 1].op = "Cannot read local variable in its own initializer."
                     /\ last.result = "returned"
                     /\ had_error
                ELSE IF holding # {}
                THEN /\ Recorded(i)
                     /\ last.trace[i + 1].p
                            = Len(scopes) - (CHOOSE j \in holding : \A h \in holding : h <= j)
                ELSE ~Recorded(i)

\* Resolver(interpreter).resolve(statements) on an interpreter whose
\* side-table is empty.
ResolvedAlone(statements) ==
    resolve([scopes |-> <<>>, current_function |-> "NONE", locals |-> NoLocals,
             sig |-> "ok", msg |-> "", trace |-> <<>>], statements, 1)

\* C27: when a program has resolved without error and is then run with the
\* side-table of that resolution, no get_at or assign_at walks past the
\* globals environment (AttributeError) and no get_at misses the name in
\* the environment it reaches (KeyError).
C27_DistancesAgree ==
    \A i \in 1..Len(Corpus) :
        (/\ Ran(Corpus[i].name)
         /\ lines = 2
         /\ ResolvedAlone(Corpus[i].statements).sig = "ok"
         /\ locals = ResolvedAlone(Corpus[i].statements).locals)
        => ~(last.result = "raised" /\ last.exception \in {"KeyError", "AttributeError"})

\* The events of the declarations and synchronizations of the last parse.
Moves == {i \in DOMAIN last.trace : last.trace[i].k \in {"declaration", "synchronize"}}

\* C28: Parser.parse terminates on every EOF-terminated token list: every
\* declaration, a failing one with its synchronization included, at the top
\* level or in a block, leaves the cursor at least one token further or at
\* EOF; the cursor never decreases and never passes the index of EOF, and
\* the declarations of parse follow one another from 0 to EOF.
C28_ParseTerminates ==
    last.op = "parse" =>
        /\ last.result = "returned"
        /\ \A i \in Moves :
               LET e == last.trace[i]
               IN  /\ 0 <= e.at /\ e.at <= e.to /\ e.to <= Len(tokens) - 1
                   /\ e.to > e.at \/ tokens[e.at + 1].type = "EOF"
        /\ \A i \in DOMAIN TopDeclarations :
               TopDeclarations[i].at = IF i = 1 THEN 0 ELSE TopDeclarations[i - 1].to
        /\ last.trace[Len(last.trace)].to = Len(tokens) - 1

\* A declaration failed just after a `;`, where the loop of synchronize
\* makes no step of its own, and a declaration failed inside a block.
C28_FailedAfterSemicolon ==
    /\ last.op = "parse"
    /\ \E i \in Moves :
           LET e == last.trace[i]
           IN  /\ e.k = "synchronize" /\ e.at >= 1
               /\ tokens[e.at].type = "SEMICOLON" /\ e.to = e.at + 1
    /\ \E i \in Moves : last.trace[i].k = "synchronize" /\ last.trace[i].depth > 0

====
